---- MODULE Spec2Model ----
(***************************************************************************)
(* Model of the health advisor workflow: the LangGraph StateGraph built by *)
(* create_health_advisor_graph (src/src/workflows/health_advisor_graph.py),*)
(* its six node functions, the HealthAdvisorState channels and the         *)
(* callers that run the compiled graph (src/server.py).                    *)
(*                                                                         *)
(* The compiled graph is executed in supersteps: the nodes triggered by    *)
(* the previous step run concurrently, every node returns a dict, and the  *)
(* returned dicts are written to the state channels together once every    *)
(* node of the step has returned.  Keys of a returned dict that are not    *)
(* channels of the state schema are not written.                           *)
(*                                                                         *)
(* A run starts from the compiled graph: the nodes and edges are those     *)
(* create_health_advisor_graph declares.  (As written, that function       *)
(* passes two arguments to node factories that take one; the model         *)
(* describes the runs of the graph it wires.)                              *)
(***************************************************************************)
EXTENDS Naturals, Integers, Sequences, FiniteSets, TLC

\* ------------------------------------------------------------------ bounds
\* longest findings list a model answer holds
MaxFindings == 3
\* longest ingredients list the vision model extracts
MaxIngredients == 1
\* longest alternatives list a model answer holds (validation allows 3)
MaxAnswerAlternatives == 4

\* --------------------------------------------------------------- node names
START == "__start__"
END == "__end__"
NODE_EXTRACT_INGREDIENTS == "extract_ingredients"
NODE_ANALYZE_BENEFITS == "analyze_benefits"
NODE_ANALYZE_DISADVANTAGES == "analyze_disadvantages"
NODE_ANALYZE_DISEASES == "analyze_disease_associations"
NODE_RECOMMEND_ALTERNATIVES == "recommend_alternatives"
NODE_COMPILE_FINAL_REPORT == "compile_final_report"

AnalysisNodes ==
    {NODE_ANALYZE_BENEFITS, NODE_ANALYZE_DISADVANTAGES, NODE_ANALYZE_DISEASES}

Nodes ==
    {NODE_EXTRACT_INGREDIENTS, NODE_RECOMMEND_ALTERNATIVES,
     NODE_COMPILE_FINAL_REPORT} \cup AnalysisNodes

\* workflow.add_edge(a, b) for every pair <<a, b>>, in the source's groups
EntryEdges == {<<START, NODE_EXTRACT_INGREDIENTS>>}

FanOutEdges ==
    {<<NODE_EXTRACT_INGREDIENTS, NODE_ANALYZE_BENEFITS>>,
     <<NODE_EXTRACT_INGREDIENTS, NODE_ANALYZE_DISADVANTAGES>>,
     <<NODE_EXTRACT_INGREDIENTS, NODE_ANALYZE_DISEASES>>}

JoinEdges ==
    {<<NODE_ANALYZE_BENEFITS, NODE_RECOMMEND_ALTERNATIVES>>,
     <<NODE_ANALYZE_DISADVANTAGES, NODE_RECOMMEND_ALTERNATIVES>>,
     <<NODE_ANALYZE_DISEASES, NODE_RECOMMEND_ALTERNATIVES>>}

TailEdges ==
    {<<NODE_RECOMMEND_ALTERNATIVES, NODE_COMPILE_FINAL_REPORT>>,
     <<NODE_COMPILE_FINAL_REPORT, END>>}

\* mutant: the disease node is chained after the benefits node
Edges_DiseasesAfterBenefits ==
    EntryEdges
    \cup (FanOutEdges \ {<<NODE_EXTRACT_INGREDIENTS, NODE_ANALYZE_DISEASES>>})
    \cup {<<NODE_ANALYZE_BENEFITS, NODE_ANALYZE_DISEASES>>}
    \cup JoinEdges \cup TailEdges

\* mutant: the benefits node also hangs off START
Edges_BenefitsFromStart ==
    EntryEdges \cup {<<START, NODE_ANALYZE_BENEFITS>>}
    \cup FanOutEdges \cup JoinEdges \cup TailEdges

\* mutant: the disease node leads to the compiler instead of the join node
Edges_DiseasesToCompiler ==
    EntryEdges \cup FanOutEdges
    \cup (JoinEdges \ {<<NODE_ANALYZE_DISEASES, NODE_RECOMMEND_ALTERNATIVES>>})
    \cup {<<NODE_ANALYZE_DISEASES, NODE_COMPILE_FINAL_REPORT>>}
    \cup TailEdges

\* mutant: the join node also hangs off the entry node
Edges_ExtractToRecommend ==
    EntryEdges \cup FanOutEdges
    \cup {<<NODE_EXTRACT_INGREDIENTS, NODE_RECOMMEND_ALTERNATIVES>>}
    \cup JoinEdges \cup TailEdges

\* mutant: the disadvantages node is chained after the disease node
Edges_DisadvantagesAfterDiseases ==
    EntryEdges
    \cup (FanOutEdges
            \ {<<NODE_EXTRACT_INGREDIENTS, NODE_ANALYZE_DISADVANTAGES>>})
    \cup {<<NODE_ANALYZE_DISEASES, NODE_ANALYZE_DISADVANTAGES>>}
    \cup JoinEdges \cup TailEdges

\* mutant: the edge from analyze_benefits to the join node is missing
Edges_BenefitsDeadEnd ==
    EntryEdges \cup FanOutEdges \cup TailEdges
    \cup (JoinEdges \ {<<NODE_ANALYZE_BENEFITS, NODE_RECOMMEND_ALTERNATIVES>>})

\* the edges of the compiled graph
Edges == EntryEdges \cup FanOutEdges \cup JoinEdges \cup TailEdges

\* the analysis_type each analysis node factory is created with
AnalysisType(n) ==
    CASE n = NODE_ANALYZE_BENEFITS -> "benefits"
      [] n = NODE_ANALYZE_DISADVANTAGES -> "disadvantages"
      [] n = NODE_ANALYZE_DISEASES -> "disease_associations"

\* ------------------------------------------------------------------- values
\* Every value is a record with a kind, so that any two values compare.
None == [kind |-> "None"]
\* a channel that was never written
Absent == [kind |-> "absent"]
Bool(b) == [kind |-> "bool", b |-> b]
\* a string is the sequence of the parts it is formatted from
Str(parts) == [kind |-> "str", s |-> parts]
Lit(t) == Str(<<t>>)
EmptyStr == Str(<< >>)
Cat(a, b) == Str(a.s \o b.s)
Float == [kind |-> "float"]

\* Python truthiness of a value
Truthy(v) ==
    CASE v.kind = "None" -> FALSE
      [] v.kind = "bool" -> v.b
      [] v.kind = "str" -> Len(v.s) > 0
      [] OTHER -> TRUE

\* ImageValidationStatus
VALID_FOOD_IMAGE == "valid_food_image"
INVALID_NOT_FOOD == "invalid_not_food"
INVALID_NO_INGREDIENTS == "invalid_no_ingredients"
INVALID_POOR_QUALITY == "invalid_poor_quality"
ERROR == "error"
ImageValidationStatus ==
    {VALID_FOOD_IMAGE, INVALID_NOT_FOOD, INVALID_NO_INGREDIENTS,
     INVALID_POOR_QUALITY, ERROR}

\* ExtractedIngredientsData(...), with its check_error_status validator
ExtractedIngredientsData(validation_status, ingredients, error_message) ==
    [kind |-> "ExtractedIngredientsData",
     validation_status |-> validation_status,
     ingredients |-> ingredients,
     error_message |->
        IF validation_status = ERROR /\ ~Truthy(error_message)
        THEN Lit("An unspecified error occurred during image processing.")
        ELSE error_message]

HealthAnalysisReport(analysis_type, findings, detailed_analysis, confidence_level, health_score_impact) ==
    [kind |-> "HealthAnalysisReport",
     analysis_type |-> analysis_type,
     findings |-> findings,
     detailed_analysis |-> detailed_analysis,
     confidence_level |-> confidence_level,
     health_score_impact |-> health_score_impact]

\* mutant: the validator accepts whatever the model answers
MaxAlternatives_Raised == MaxAnswerAlternatives

\* the most alternatives validate_alternatives_count accepts
MaxAlternatives == 3

HealthyAlternative(product_name) ==
    [kind |-> "HealthyAlternative", product_name |-> product_name]

HealthyAlternativesReport(summary, alternatives) ==
    [kind |-> "HealthyAlternativesReport",
     summary |-> summary,
     alternatives |-> alternatives]

\* ------------------------------------------------------------ state schema
\* the channels of HealthAdvisorState
StateKeys ==
    {"image_path", "extracted_data", "should_stop_processing",
     "error_message", "benefits_analysis", "disadvantages_analysis",
     "disease_analysis", "alternatives_report", "final_analysis"}

\* dict operations on the state a node receives and the dict it returns
Put(d, k, v) == [x \in (DOMAIN d) \cup {k} |-> IF x = k THEN v ELSE d[x]]
GetD(d, k, default) == IF k \in DOMAIN d THEN d[k] ELSE default
Get(d, k) == GetD(d, k, None)
EmptyDict == [x \in {} |-> None]

\* the dict a node is called with: the channels that hold a value
Visible(channels) ==
    [k \in {x \in StateKeys : channels[x] # Absent} |-> channels[k]]

VARIABLES
    caller,        \* which handler started the run
    state,         \* the state channels
    status,        \* per node: pending, ready, running, finished, done
    patch,         \* per node: the dict it returned last
    launches,      \* per node: how often it was started
    searchCalls,   \* per node: web searches it performed
    llmCalls,      \* per node: model calls it made
    failedExec,    \* per node: its real executor failed
    finishOrder,   \* the nodes in the order they returned
    altPrompt,     \* the three summaries the join node put in its prompt
    run,           \* not_started, rejected, running, returned, raised
    response,      \* what the caller got: pending, report, no_report, error
    tempFile,      \* the handler's temporary image file: none, exists, removed
    callerReport,  \* the report object after the caller has handled it
    other,         \* a second run on the same compiled graph, if there is one
    VERIFY_TOKEN,  \* app.state.VERIFY_TOKEN, read from META_VERIFY_TOKEN
    webhook,       \* the last GET /webhook request and the answer it got
    task,          \* the WhatsApp background task: payload, position, sends
    mcp,           \* the MCPClientManager: exit stack, tool registry, calls
    searchOp,      \* one search operation of MCPSearchTool
    message        \* a report and the WhatsApp message formatted from it

vars ==
    <<caller, state, status, patch, launches, searchCalls, llmCalls,
      failedExec, finishOrder, altPrompt, run, response, tempFile,
      callerReport, other, VERIFY_TOKEN, webhook, task, mcp,
      searchOp, message>>

\* the state of one run of the graph and of its handler
runVars ==
    <<caller, state, status, patch, launches, searchCalls, llmCalls,
      failedExec, finishOrder, altPrompt, run, response, tempFile,
      callerReport, other>>

\* the state of the application around the runs
serviceVars ==
    <<VERIFY_TOKEN, webhook, task, mcp, searchOp, message>>

\* ------------------------------------------------------- executor outcomes
\* what the world outside the workflow answers in one run
IngredientLists ==
    {[i \in 1..k |-> Lit("sugar")] : k \in 0..MaxIngredients}

\* image read, vision call and parse of ingredient_extractor_node
ExtractOutcomes ==
    {[kind |-> "unreadable", err |-> Lit("Image file not found"),
      data |-> None]}
    \cup {[kind |-> "llm_error", err |-> e, data |-> None] :
            e \in {EmptyStr, Lit("vision call failed")}}
    \cup {[kind |-> "parsed", err |-> EmptyStr,
           data |-> ExtractedIngredientsData(s, ing, m)] :
            s \in ImageValidationStatus, ing \in IngredientLists,
            m \in {None, Lit("not a food label")}}

\* web search of an analysis node
SearchOutcomes == {"results", "empty", "error"}

\* chain.invoke of an analysis node: it raises, or parses a report
ChainOutcomes ==
    {[kind |-> "error", n |-> 0]}
    \cup {[kind |-> "report", n |-> k] : k \in 0..MaxFindings}

\* chain.ainvoke of the alternatives node: it raises, or the model answers
\* with n alternatives
AlternativesOutcomes ==
    {[kind |-> "error", n |-> 0]}
    \cup {[kind |-> "answer", n |-> k] : k \in 0..MaxAnswerAlternatives}

Finding(analysis_type, i) == Str(<<analysis_type, "finding", ToString(i)>>)
Findings(analysis_type, k) == [i \in 1..k |-> Finding(analysis_type, i)]
Alternatives(k) ==
    [i \in 1..k |-> HealthyAlternative(Str(<<"alternative", ToString(i)>>))]

\* ------------------------------------------------------------------- nodes
\* what one call of a node does: the dict it returns, the outside calls it
\* makes, whether its real executor failed, whether the call itself raised
NodeResult(ret, search, llm, failed, raised) ==
    [ret |-> ret, search |-> search, llm |-> llm, failed |-> failed,
     raised |-> raised]

\* mutant: the except clause around the vision call is missing, the error
\* leaves the node
IngredientExtractorNode_Reraises(st, o) ==
    LET s0 == Put(st, "current_task_start_time", Float)
        errorResult(data, msg) ==
            Put(Put(Put(s0, "extracted_data", data),
                    "should_stop_processing", Bool(TRUE)),
                "error_message", msg)
    IN  CASE o.kind = "unreadable" ->
               NodeResult(
                   errorResult(
                       ExtractedIngredientsData(ERROR, << >>, o.err), o.err),
                   0, 0, TRUE, FALSE)
          [] o.kind = "llm_error" ->
               NodeResult(EmptyDict, 0, 1, TRUE, TRUE)
          [] o.kind = "parsed" ->
               LET stop == o.data.validation_status # VALID_FOOD_IMAGE
                   s1 == Put(Put(s0, "extracted_data", o.data),
                             "should_stop_processing", Bool(stop))
                   s2 == IF stop
                         THEN Put(s1, "error_message",
                                  IF Truthy(o.data.error_message)
                                  THEN o.data.error_message
                                  ELSE Lit("Image validation failed."))
                         ELSE s1
               IN  NodeResult(s2, 0, 1, FALSE, FALSE)

\* mutant: when the image cannot be read the node sets the flag and the
\* message but stores no error data
IngredientExtractorNode_NoErrorData(st, o) ==
    LET s0 == Put(st, "current_task_start_time", Float)
        errorResult(data, msg) ==
            Put(Put(Put(s0, "extracted_data", data),
                    "should_stop_processing", Bool(TRUE)),
                "error_message", msg)
    IN  CASE o.kind = "unreadable" ->
               NodeResult(
                   Put(Put(s0, "should_stop_processing", Bool(TRUE)),
                       "error_message", o.err),
                   0, 0, TRUE, FALSE)
          [] o.kind = "llm_error" ->
               NodeResult(
                   errorResult(
                       ExtractedIngredientsData(ERROR, << >>,
                           Cat(Lit("LLM processing or parsing error: "),
                               o.err)),
                       o.err),
                   0, 1, TRUE, FALSE)
          [] o.kind = "parsed" ->
               LET stop == o.data.validation_status # VALID_FOOD_IMAGE
                   s1 == Put(Put(s0, "extracted_data", o.data),
                             "should_stop_processing", Bool(stop))
                   s2 == IF stop
                         THEN Put(s1, "error_message",
                                  IF Truthy(o.data.error_message)
                                  THEN o.data.error_message
                                  ELSE Lit("Image validation failed."))
                         ELSE s1
               IN  NodeResult(s2, 0, 1, FALSE, FALSE)

\* mutant: an image that is not valid sets the flag but records no reason
IngredientExtractorNode_NoReason(st, o) ==
    LET s0 == Put(st, "current_task_start_time", Float)
        errorResult(data, msg) ==
            Put(Put(Put(s0, "extracted_data", data),
                    "should_stop_processing", Bool(TRUE)),
                "error_message", msg)
    IN  CASE o.kind = "unreadable" ->
               NodeResult(
                   errorResult(
                       ExtractedIngredientsData(ERROR, << >>, o.err), o.err),
                   0, 0, TRUE, FALSE)
          [] o.kind = "llm_error" ->
               NodeResult(
                   errorResult(
                       ExtractedIngredientsData(ERROR, << >>,
                           Cat(Lit("LLM processing or parsing error: "),
                               o.err)),
                       o.err),
                   0, 1, TRUE, FALSE)
          [] o.kind = "parsed" ->
               LET stop == o.data.validation_status # VALID_FOOD_IMAGE
                   s1 == Put(Put(s0, "extracted_data", o.data),
                             "should_stop_processing", Bool(stop))
                   s2 == s1
               IN  NodeResult(s2, 0, 1, FALSE, FALSE)

\* mutant: an image of poor quality does not stop the run
IngredientExtractorNode_PoorQualityGoesOn(st, o) ==
    LET s0 == Put(st, "current_task_start_time", Float)
        errorResult(data, msg) ==
            Put(Put(Put(s0, "extracted_data", data),
                    "should_stop_processing", Bool(TRUE)),
                "error_message", msg)
    IN  CASE o.kind = "unreadable" ->
               NodeResult(
                   errorResult(
                       ExtractedIngredientsData(ERROR, << >>, o.err), o.err),
                   0, 0, TRUE, FALSE)
          [] o.kind = "llm_error" ->
               NodeResult(
                   errorResult(
                       ExtractedIngredientsData(ERROR, << >>,
                           Cat(Lit("LLM processing or parsing error: "),
                               o.err)),
                       o.err),
                   0, 1, TRUE, FALSE)
          [] o.kind = "parsed" ->
               LET stop == o.data.validation_status
                               \notin {VALID_FOOD_IMAGE, INVALID_POOR_QUALITY}
                   s1 == Put(Put(s0, "extracted_data", o.data),
                             "should_stop_processing", Bool(stop))
                   s2 == IF stop
                         THEN Put(s1, "error_message",
                                  IF Truthy(o.data.error_message)
                                  THEN o.data.error_message
                                  ELSE Lit("Image validation failed."))
                         ELSE s1
               IN  NodeResult(s2, 0, 1, FALSE, FALSE)

\* ingredient_extractor_node(state)
IngredientExtractorNode(st, o) ==
    LET s0 == Put(st, "current_task_start_time", Float)
        errorResult(data, msg) ==
            Put(Put(Put(s0, "extracted_data", data),
                    "should_stop_processing", Bool(TRUE)),
                "error_message", msg)
    IN  CASE o.kind = "unreadable" ->
               NodeResult(
                   errorResult(
                       ExtractedIngredientsData(ERROR, << >>, o.err), o.err),
                   0, 0, TRUE, FALSE)
          [] o.kind = "llm_error" ->
               NodeResult(
                   errorResult(
                       ExtractedIngredientsData(ERROR, << >>,
                           Cat(Lit("LLM processing or parsing error: "),
                               o.err)),
                       o.err),
                   0, 1, TRUE, FALSE)
          [] o.kind = "parsed" ->
               LET stop == o.data.validation_status # VALID_FOOD_IMAGE
                   s1 == Put(Put(s0, "extracted_data", o.data),
                             "should_stop_processing", Bool(stop))
                   s2 == IF stop
                         THEN Put(s1, "error_message",
                                  IF Truthy(o.data.error_message)
                                  THEN o.data.error_message
                                  ELSE Lit("Image validation failed."))
                         ELSE s1
               IN  NodeResult(s2, 0, 1, FALSE, FALSE)

\* mutant: the disadvantages factory is created with the type of the
\* benefits factory's output
AnalysisOutputKey_SharedKey(analysis_type) ==
    CASE analysis_type = "benefits" -> "benefits_analysis"
      [] analysis_type = "disadvantages" -> "benefits_analysis"
      [] analysis_type = "disease_associations" ->
             "disease_associations_analysis"

\* mutant: the disease factory is created with the type of the disadvantages
\* factory's output
AnalysisOutputKey_DiseaseAsDisadvantages(analysis_type) ==
    CASE analysis_type = "benefits" -> "benefits_analysis"
      [] analysis_type = "disadvantages" -> "disadvantages_analysis"
      [] analysis_type = "disease_associations" -> "disadvantages_analysis"

\* the key f"{analysis_type}_analysis" an analysis node returns its report in
AnalysisOutputKey(analysis_type) ==
    CASE analysis_type = "benefits" -> "benefits_analysis"
      [] analysis_type = "disadvantages" -> "disadvantages_analysis"
      [] analysis_type = "disease_associations" ->
             "disease_associations_analysis"

SkippedAnalysis(analysis_type) ==
    HealthAnalysisReport(analysis_type, <<Lit("Analysis skipped")>>,
        Str(<<"Processing stopped before ", analysis_type, " analysis.">>),
        Lit("N/A"), 0)

MissingIngredientsAnalysis(analysis_type) ==
    HealthAnalysisReport(analysis_type, <<Lit("Missing ingredients")>>,
        Str(<<"No ingredients data available for ", analysis_type,
              " analysis.">>),
        Lit("Low"), 0)

ErrorAnalysis(analysis_type, e) ==
    HealthAnalysisReport(analysis_type,
        <<Str(<<"Error during ", analysis_type, " analysis">>)>>,
        e, Lit("Error"), 0)

ModelAnalysis(analysis_type, k) ==
    HealthAnalysisReport(analysis_type, Findings(analysis_type, k),
        Str(<<analysis_type, "detailed analysis">>), Lit("High"), None)

\* mutant: the check of should_stop_processing is missing
AnalysisNode_NoSkipCheck(analysis_type, st, search, chain) ==
    LET key == AnalysisOutputKey(analysis_type)
        extracted_data == Get(st, "extracted_data")
        only(report) == Put(EmptyDict, key, report)
    IN  IF ~Truthy(extracted_data)
           \/ Len(extracted_data.ingredients) = 0
        THEN NodeResult(only(MissingIngredientsAnalysis(analysis_type)),
                        0, 0, FALSE, FALSE)
        ELSE IF chain.kind = "error"
        THEN NodeResult(only(ErrorAnalysis(analysis_type, Lit("chain error"))),
                        1, 1, TRUE, FALSE)
        ELSE NodeResult(only(ModelAnalysis(analysis_type, chain.n)),
                        1, 1, FALSE, FALSE)

\* mutant: the except clause around chain.invoke is missing, the error
\* leaves the node
AnalysisNode_Reraises(analysis_type, st, search, chain) ==
    LET key == AnalysisOutputKey(analysis_type)
        extracted_data == Get(st, "extracted_data")
        only(report) == Put(EmptyDict, key, report)
    IN  IF Truthy(GetD(st, "should_stop_processing", Bool(FALSE)))
        THEN NodeResult(only(SkippedAnalysis(analysis_type)),
                        0, 0, FALSE, FALSE)
        ELSE IF ~Truthy(extracted_data)
                \/ Len(extracted_data.ingredients) = 0
        THEN NodeResult(only(MissingIngredientsAnalysis(analysis_type)),
                        0, 0, FALSE, FALSE)
        ELSE IF chain.kind = "error"
        THEN NodeResult(EmptyDict, 1, 1, TRUE, TRUE)
        ELSE NodeResult(only(ModelAnalysis(analysis_type, chain.n)),
                        1, 1, FALSE, FALSE)

\* mutant: the check for an empty ingredient list is missing
AnalysisNode_NoIngredientCheck(analysis_type, st, search, chain) ==
    LET key == AnalysisOutputKey(analysis_type)
        extracted_data == Get(st, "extracted_data")
        only(report) == Put(EmptyDict, key, report)
    IN  IF Truthy(GetD(st, "should_stop_processing", Bool(FALSE)))
        THEN NodeResult(only(SkippedAnalysis(analysis_type)),
                        0, 0, FALSE, FALSE)
        ELSE IF ~Truthy(extracted_data)
        THEN NodeResult(only(MissingIngredientsAnalysis(analysis_type)),
                        0, 0, FALSE, FALSE)
        ELSE IF chain.kind = "error"
        THEN NodeResult(only(ErrorAnalysis(analysis_type, Lit("chain error"))),
                        1, 1, TRUE, FALSE)
        ELSE NodeResult(only(ModelAnalysis(analysis_type, chain.n)),
                        1, 1, FALSE, FALSE)

\* analysis_node(state) of the factory created with analysis_type
AnalysisNode(analysis_type, st, search, chain) ==
    LET key == AnalysisOutputKey(analysis_type)
        extracted_data == Get(st, "extracted_data")
        only(report) == Put(EmptyDict, key, report)
    IN  IF Truthy(GetD(st, "should_stop_processing", Bool(FALSE)))
        THEN NodeResult(only(SkippedAnalysis(analysis_type)),
                        0, 0, FALSE, FALSE)
        ELSE IF ~Truthy(extracted_data)
                \/ Len(extracted_data.ingredients) = 0
        THEN NodeResult(only(MissingIngredientsAnalysis(analysis_type)),
                        0, 0, FALSE, FALSE)
        ELSE IF chain.kind = "error"
        THEN NodeResult(only(ErrorAnalysis(analysis_type, Lit("chain error"))),
                        1, 1, TRUE, FALSE)
        ELSE NodeResult(only(ModelAnalysis(analysis_type, chain.n)),
                        1, 1, FALSE, FALSE)

\* the three summaries alternatives_recommender_node prepares for its prompt
AlternativesSummaries(st) ==
    LET summary(key) ==
            IF Truthy(Get(st, key))
            THEN Get(st, key).detailed_analysis
            ELSE Lit("Not analyzed.")
    IN  [kind |-> "summaries",
         benefits_summary |-> summary("benefits_analysis"),
         disadvantages_summary |-> summary("disadvantages_analysis"),
         disease_summary |-> summary("disease_analysis")]

\* mutant: the skip path hands the state on with the flag cleared
AlternativesRecommenderNode_ClearsFlag(st, o) ==
    LET s0 == Put(st, "current_task_start_time", Float)
        with(report) == Put(s0, "alternatives_report", report)
    IN  IF Truthy(GetD(s0, "should_stop_processing", Bool(FALSE)))
        THEN NodeResult(
                 Put(with(HealthyAlternativesReport(
                         Lit("Recommendation skipped due to issues in prior analysis."),
                         << >>)),
                     "should_stop_processing", Bool(FALSE)),
                 0, 0, FALSE, FALSE)
        ELSE IF ~Truthy(Get(s0, "extracted_data"))
        THEN NodeResult(
                 with(HealthyAlternativesReport(
                     Lit("Cannot recommend alternatives without ingredient data."),
                     << >>)),
                 0, 0, FALSE, FALSE)
        ELSE IF o.kind = "error" \/ o.n > MaxAlternatives
        THEN NodeResult(
                 with(HealthyAlternativesReport(
                     Cat(Lit("Error generating alternatives: "),
                         IF o.kind = "error"
                         THEN Lit("chain error")
                         ELSE Lit("Maximum 3 alternatives should be provided")),
                     << >>)),
                 0, 1, TRUE, FALSE)
        ELSE NodeResult(
                 with(HealthyAlternativesReport(
                     Lit("alternatives summary"), Alternatives(o.n))),
                 0, 1, FALSE, FALSE)

\* mutant: the node resets error_message in the state it hands on
AlternativesRecommenderNode_ResetsError(st, o) ==
    LET s0 == Put(Put(st, "current_task_start_time", Float),
                  "error_message", None)
        with(report) == Put(s0, "alternatives_report", report)
    IN  IF Truthy(GetD(s0, "should_stop_processing", Bool(FALSE)))
        THEN NodeResult(
                 with(HealthyAlternativesReport(
                     Lit("Recommendation skipped due to issues in prior analysis."),
                     << >>)),
                 0, 0, FALSE, FALSE)
        ELSE IF ~Truthy(Get(s0, "extracted_data"))
        THEN NodeResult(
                 with(HealthyAlternativesReport(
                     Lit("Cannot recommend alternatives without ingredient data."),
                     << >>)),
                 0, 0, FALSE, FALSE)
        ELSE IF o.kind = "error" \/ o.n > MaxAlternatives
        THEN NodeResult(
                 with(HealthyAlternativesReport(
                     Cat(Lit("Error generating alternatives: "),
                         IF o.kind = "error"
                         THEN Lit("chain error")
                         ELSE Lit("Maximum 3 alternatives should be provided")),
                     << >>)),
                 0, 1, TRUE, FALSE)
        ELSE NodeResult(
                 with(HealthyAlternativesReport(
                     Lit("alternatives summary"), Alternatives(o.n))),
                 0, 1, FALSE, FALSE)

\* alternatives_recommender_node(state).  Its search call names a method
\* MCPSearchTool does not have, so the lookup raises inside the try block
\* and no search is performed.
AlternativesRecommenderNode(st, o) ==
    LET s0 == Put(st, "current_task_start_time", Float)
        with(report) == Put(s0, "alternatives_report", report)
    IN  IF Truthy(GetD(s0, "should_stop_processing", Bool(FALSE)))
        THEN NodeResult(
                 with(HealthyAlternativesReport(
                     Lit("Recommendation skipped due to issues in prior analysis."),
                     << >>)),
                 0, 0, FALSE, FALSE)
        ELSE IF ~Truthy(Get(s0, "extracted_data"))
        THEN NodeResult(
                 with(HealthyAlternativesReport(
                     Lit("Cannot recommend alternatives without ingredient data."),
                     << >>)),
                 0, 0, FALSE, FALSE)
        ELSE IF o.kind = "error" \/ o.n > MaxAlternatives
        THEN NodeResult(
                 with(HealthyAlternativesReport(
                     Cat(Lit("Error generating alternatives: "),
                         IF o.kind = "error"
                         THEN Lit("chain error")
                         ELSE Lit("Maximum 3 alternatives should be provided")),
                     << >>)),
                 0, 1, TRUE, FALSE)
        ELSE NodeResult(
                 with(HealthyAlternativesReport(
                     Lit("alternatives summary"), Alternatives(o.n))),
                 0, 1, FALSE, FALSE)

\* whether alternatives_recommender_node reaches its chain.ainvoke
AlternativesCallsChain(st) ==
    /\ ~Truthy(GetD(st, "should_stop_processing", Bool(FALSE)))
    /\ Truthy(Get(st, "extracted_data"))

\* sep.join(list) and list[:n]
RECURSIVE Join(_, _)
Join(list, sep) ==
    IF Len(list) = 0 THEN EmptyStr
    ELSE IF Len(list) = 1 THEN list[1]
    ELSE Cat(Cat(list[1], sep), Join(Tail(list), sep))

\* mutant: the slice is missing
Take_All(list, n) == list

Take(list, n) == SubSeq(list, 1, IF Len(list) < n THEN Len(list) ELSE n)

\* how an f-string renders a value
Format(v) == IF v.kind = "None" THEN Lit("None") ELSE v

\* compile_final_report_node(state)
CompileFinalReportNode(st) ==
    LET final_report ==
            [kind |-> "CompleteHealthAnalysis",
             input_image_path |-> st["image_path"],
             extracted_data |-> Get(st, "extracted_data"),
             benefits_analysis |-> Get(st, "benefits_analysis"),
             disadvantages_analysis |-> Get(st, "disadvantages_analysis"),
             disease_analysis |-> Get(st, "disease_analysis"),
             alternatives_report |-> Get(st, "alternatives_report"),
             overall_health_assessment |-> None,
             processing_time_seconds |-> GetD(st, "total_processing_time", Float),
             final_summary_message_for_user |-> None]
        benefits == final_report.benefits_analysis
        disadvantages == final_report.disadvantages_analysis
        alternatives == final_report.alternatives_report
        part1 == IF Truthy(benefits) /\ Len(benefits.findings) > 0
                 THEN <<Cat(Cat(Lit("Benefits: "),
                                Join(Take(benefits.findings, 2), Lit(", "))),
                            Lit("."))>>
                 ELSE << >>
        part2 == IF Truthy(disadvantages) /\ Len(disadvantages.findings) > 0
                 THEN <<Cat(Cat(Lit("Concerns: "),
                                Join(Take(disadvantages.findings, 2), Lit(", "))),
                            Lit("."))>>
                 ELSE << >>
        part3 == IF Truthy(alternatives) /\ Len(alternatives.alternatives) > 0
                 THEN <<Cat(Cat(Lit("Consider alternatives like: "),
                                alternatives.alternatives[1].product_name),
                            Lit("."))>>
                 ELSE IF Truthy(alternatives)
                 THEN <<alternatives.summary>>
                 ELSE << >>
        assessment_parts == part1 \o part2 \o part3
        assessment == IF Len(assessment_parts) > 0
                      THEN Join(assessment_parts, Lit(" "))
                      ELSE Lit("Basic analysis complete.")
        summarised ==
            IF Truthy(Get(st, "should_stop_processing"))
            THEN [final_report EXCEPT
                    !.final_summary_message_for_user =
                        Cat(Cat(Cat(Lit("Analysis could not be completed for "),
                                    st["image_path"]),
                                Lit(". Reason: ")),
                            Format(GetD(st, "error_message",
                                Lit("Unknown error during processing."))))]
            ELSE IF Truthy(final_report.extracted_data)
            THEN [final_report EXCEPT
                    !.final_summary_message_for_user = assessment,
                    !.overall_health_assessment = assessment]
            ELSE final_report
    IN  IF final_report.extracted_data.kind # "ExtractedIngredientsData"
        THEN \* CompleteHealthAnalysis requires extracted_data
             NodeResult(EmptyDict, 0, 0, FALSE, TRUE)
        ELSE NodeResult(Put(st, "final_analysis", summarised),
                        0, 0, FALSE, FALSE)

\* whether format_whatsapp_message(report) is the 'Analysis Failed' message
FormatsAsFailed(final_report) ==
    final_report.extracted_data.validation_status # VALID_FOOD_IMAGE

\* ------------------------------------------------------------------- runs
\* the request handlers that run the compiled graph
Callers == {"analyze", "whatsapp", "cli"}

\* the handlers that save the image they are sent to a temporary file
UploadCallers == {"analyze", "whatsapp"}

ImagePath == Lit("/tmp/upload.jpg")

\* the initial_state the caller passes to ainvoke, written to the channels
InitialState(c) ==
    IF c \in {"analyze", "cli"}
    THEN [k \in StateKeys |->
            CASE k = "image_path" -> ImagePath
              [] k = "should_stop_processing" -> Bool(FALSE)
              [] OTHER -> None]
    ELSE [k \in StateKeys |->
            IF k = "image_path" THEN ImagePath ELSE Absent]

\* the nodes an edge from one of the nodes in from leads to
Successors(from) == {m \in Nodes : \E n \in from : <<n, m>> \in Edges}

\* the start of a run for caller c, with the run and the temporary file as
\* given
Start(c, started, file) ==
    /\ caller = c
    /\ state = InitialState(c)
    /\ status = [n \in Nodes |->
                    IF n \in Successors({START}) THEN "ready" ELSE "pending"]
    /\ patch = [n \in Nodes |-> EmptyDict]
    /\ launches = [n \in Nodes |-> 0]
    /\ searchCalls = [n \in Nodes |-> 0]
    /\ llmCalls = [n \in Nodes |-> 0]
    /\ failedExec = [n \in Nodes |-> FALSE]
    /\ finishOrder = << >>
    /\ altPrompt = None
    /\ run = started
    /\ response = "pending"
    /\ tempFile = file
    /\ callerReport = None

\* nothing has happened around the runs: no webhook request was made and
\* no background task was started
ServicesIdle ==
    /\ VERIFY_TOKEN = None
    /\ webhook = None
    /\ task = None
    /\ mcp = None
    /\ searchOp = None
    /\ message = None

\* a caller has saved its image, where it saves one, and calls ainvoke
Init ==
    /\ \E c \in Callers :
          Start(c, "running",
                IF c \in UploadCallers THEN "exists" ELSE "none")
    /\ other = None
    /\ ServicesIdle

\* a node triggered for the current step can start
CanLaunch(n) == run = "running" /\ status[n] = "ready"

\* a node triggered for the current step starts, reading the state channels
Launch(n) ==
    /\ CanLaunch(n)
    /\ status' = [status EXCEPT ![n] = "running"]
    /\ launches' = [launches EXCEPT ![n] = @ + 1]
    /\ UNCHANGED <<caller, state, patch, searchCalls, llmCalls, failedExec,
                   finishOrder, altPrompt, run, response, tempFile,
                   callerReport, other>>
    /\ UNCHANGED serviceVars

\* a started node can return
CanComplete(n) == run = "running" /\ status[n] = "running"

\* the temporary file after the finally clause of the handler
AfterFinally(f) == IF f = "exists" THEN "removed" ELSE f

\* a running node returns r.ret, or raises and so ends the run: the caller's
\* except clause answers with an error and its finally clause removes the
\* temporary file
Complete(n, r) ==
    /\ CanComplete(n)
    /\ status' = [status EXCEPT ![n] = "finished"]
    /\ searchCalls' = [searchCalls EXCEPT ![n] = @ + r.search]
    /\ llmCalls' = [llmCalls EXCEPT ![n] = @ + r.llm]
    /\ failedExec' = [failedExec EXCEPT ![n] = @ \/ r.failed]
    /\ finishOrder' = Append(finishOrder, n)
    /\ IF r.raised
       THEN /\ run' = "raised"
            /\ response' = "error"
            /\ tempFile' = AfterFinally(tempFile)
            /\ UNCHANGED patch
       ELSE /\ patch' = [patch EXCEPT ![n] = r.ret]
            /\ UNCHANGED <<run, response, tempFile>>
    /\ UNCHANGED <<caller, state, launches, callerReport, other>>
    /\ UNCHANGED serviceVars

ExtractIngredients ==
    \E o \in ExtractOutcomes :
        /\ Complete(NODE_EXTRACT_INGREDIENTS,
                    IngredientExtractorNode(Visible(state), o))
        /\ UNCHANGED altPrompt

Analyze(n) ==
    \E search \in SearchOutcomes, chain \in ChainOutcomes :
        /\ Complete(n, AnalysisNode(AnalysisType(n), Visible(state),
                                    search, chain))
        /\ UNCHANGED altPrompt

RecommendAlternatives ==
    \E o \in AlternativesOutcomes :
        /\ Complete(NODE_RECOMMEND_ALTERNATIVES,
                    AlternativesRecommenderNode(Visible(state), o))
        /\ altPrompt' = IF AlternativesCallsChain(Visible(state))
                        THEN AlternativesSummaries(Visible(state))
                        ELSE altPrompt

CompileFinalReport ==
    /\ Complete(NODE_COMPILE_FINAL_REPORT,
                CompileFinalReportNode(Visible(state)))
    /\ UNCHANGED altPrompt

\* the nodes of the current step that have returned
Finished == {n \in Nodes : status[n] = "finished"}

\* the channels node n's returned dict writes
Writes(n) == (DOMAIN patch[n]) \cap StateKeys

\* a LastValue channel takes one value per step
Conflict ==
    \E k \in StateKeys :
        Cardinality({n \in Finished : k \in Writes(n)}) > 1

\* every node of the current step has returned
StepEnded ==
    /\ run = "running"
    /\ Finished # {}
    /\ \A n \in Nodes : status[n] \notin {"ready", "running"}

\* End of a step: every node of the step has returned.  The returned dicts
\* are written to the channels together and the successors of the nodes of
\* the step are triggered.
ApplyWrites ==
    /\ StepEnded
    /\ IF Conflict
       THEN /\ run' = "raised"
            /\ response' = "error"
            /\ tempFile' = AfterFinally(tempFile)
            /\ UNCHANGED <<state, status>>
       ELSE /\ state' =
                [k \in StateKeys |->
                    IF \E n \in Finished : k \in Writes(n)
                    THEN patch[CHOOSE n \in Finished : k \in Writes(n)][k]
                    ELSE state[k]]
            /\ status' =
                [n \in Nodes |->
                    IF n \in Successors(Finished) THEN "ready"
                    ELSE IF n \in Finished THEN "done"
                    ELSE status[n]]
            /\ UNCHANGED <<run, response, tempFile>>
    /\ UNCHANGED <<caller, patch, launches, searchCalls, llmCalls,
                   failedExec, finishOrder, altPrompt, callerReport, other>>
    /\ UNCHANGED serviceVars

\* no node is triggered for a next step
NothingTriggered ==
    /\ run = "running"
    /\ \A n \in Nodes : status[n] \in {"pending", "done"}

\* total_processing_time measured by the command-line runner
Elapsed == [kind |-> "float", measured |-> TRUE]

\* what the caller does with the final_analysis it reads from the final
\* state: the handlers dump or format it, the command-line runner stores the
\* time it measured in it before printing it
Handled(c, final_report) ==
    IF c = "cli" /\ Truthy(final_report)
    THEN [final_report EXCEPT !.processing_time_seconds = Elapsed]
    ELSE final_report

\* ainvoke returns the final state once no node is triggered; the caller
\* reads final_analysis from it and answers, and its finally clause removes
\* the temporary file
Return ==
    /\ NothingTriggered
    /\ run' = "returned"
    /\ response' = IF Truthy(Get(Visible(state), "final_analysis"))
                   THEN "report"
                   ELSE "no_report"
    /\ callerReport' = Handled(caller, Get(Visible(state), "final_analysis"))
    /\ tempFile' = AfterFinally(tempFile)
    /\ UNCHANGED <<caller, state, status, patch, launches, searchCalls,
                   llmCalls, failedExec, finishOrder, altPrompt, other>>
    /\ UNCHANGED serviceVars

Next ==
    \/ \E n \in Nodes : Launch(n)
    \/ ExtractIngredients
    \/ \E n \in AnalysisNodes : Analyze(n)
    \/ RecommendAlternatives
    \/ CompileFinalReport
    \/ ApplyWrites
    \/ Return

Spec == Init /\ [][Next]_vars

\* every started node returns and every step ends: nodes have no way to wait
\* for each other
FairSpec == Spec /\ WF_vars(Next)

\* no action of Next is enabled: the guards of Launch, Complete, ApplyWrites
\* and Return are all false
AtRest ==
    /\ \A n \in Nodes : ~CanLaunch(n) /\ ~CanComplete(n)
    /\ ~StepEnded
    /\ ~NothingTriggered

\* --------------------------------------------------------------- handlers
\* what can happen before a handler calls ainvoke: what it was sent is no
\* image, the temporary file cannot be created, the file is created but
\* writing the image to it fails, or the image is saved
SaveOutcomes == {"not_an_image", "no_file", "write_failed", "saved"}

\* a request has reached its handler, which has not saved the image yet
HandlerInit ==
    /\ \E c \in UploadCallers : Start(c, "not_started", "none")
    /\ other = None
    /\ ServicesIdle

\* the handler saves the image it was sent to a NamedTemporaryFile made with
\* delete=False and goes on to run the workflow, or gives up with an error
SaveImage ==
    /\ run = "not_started"
    /\ \E o \in SaveOutcomes :
          /\ tempFile' = IF o \in {"write_failed", "saved"}
                         THEN "exists" ELSE "none"
          /\ run' = IF o = "saved" THEN "running" ELSE "rejected"
          /\ response' = IF o = "saved" THEN response ELSE "error"
    /\ UNCHANGED <<caller, state, status, patch, launches, searchCalls,
                   llmCalls, failedExec, finishOrder, altPrompt,
                   callerReport, other>>
    /\ UNCHANGED serviceVars

HandlerNext ==
    \/ SaveImage
    \/ Next

HandlerSpec == HandlerInit /\ [][HandlerNext]_vars

\* the handler has answered or given up
HandlerFinished == run \in {"rejected", "returned", "raised"}

\* ---------------------------------------------------------------- webhook
\* no run of the graph is under way
NoRun ==
    /\ Start("whatsapp", "not_started", "none")
    /\ other = None

\* what META_VERIFY_TOKEN can hold when the lifespan reads it: it is not
\* set, it is set to the empty string, or it is set to a secret
ConfiguredTokens == {None, EmptyStr, Lit("secret")}

\* the query parameters a GET /webhook request can carry; a parameter that
\* is not supplied reads as None
Modes == {None, Lit("subscribe"), Lit("unsubscribe")}
Tokens == {None, EmptyStr, Lit("secret"), Lit("guess")}
Challenges == {None, Lit("1158201444"), Lit("challenge")}

\* verify_whatsapp_webhook(request) with app.state.VERIFY_TOKEN = configured
verify_whatsapp_webhook(mode, token, challenge, configured) ==
    IF mode = Lit("subscribe") /\ token = configured
    THEN [status_code |-> 200, content |-> challenge]
    ELSE [status_code |-> 403,
          content |-> Lit("Verification token mismatch")]

\* the lifespan has stored the verify token it read from the environment
WebhookInit ==
    /\ NoRun
    /\ VERIFY_TOKEN \in ConfiguredTokens
    /\ webhook = None
    /\ task = None
    /\ mcp = None
    /\ searchOp = None
    /\ message = None

\* a GET /webhook request is answered
VerifyWebhook ==
    /\ \E mode \in Modes, token \in Tokens, challenge \in Challenges :
          webhook' =
              [mode |-> mode, token |-> token, challenge |-> challenge,
               answer |-> verify_whatsapp_webhook(mode, token, challenge,
                                                  VERIFY_TOKEN)]
    /\ UNCHANGED <<VERIFY_TOKEN, task, mcp, searchOp, message>>
    /\ UNCHANGED runVars

WebhookNext == VerifyWebhook

WebhookSpec == WebhookInit /\ [][WebhookNext]_vars

\* ---------------------------------------------------- WhatsApp background task
\* the payloads POST /webhook hands to the background task: one without a
\* message, a text message, an image message, and a message of type image
\* that carries no image id
PayloadKinds == {"no_message", "text", "image", "image_without_id"}

\* the numbers messages come from
Senders == {"15550001", "15550002"}

Payloads == [kind : PayloadKinds, from : Senders]

\* what a request to the WhatsApp API ends in: an answer with a good status,
\* an answer with an error status, or no answer at all
ApiOutcomes == {"ok", "error_status", "no_response"}

\* what a fetch of the media URL or of the media itself gives when the API
\* answers with a good status: something, or nothing
FetchOutcomes == {"found", "empty"} \cup (ApiOutcomes \ {"ok"})

\* what ainvoke ends in for the handler: a report of a food label, a report
\* of an image that is none, a final state without a report, an exception
WorkflowOutcomes == {"report", "failed_report", "no_report", "raised"}

\* the except clause of the three WhatsAppService methods prints
\* e.response.text: when the request got no response e.response is None and
\* the print raises AttributeError out of the method
ServiceRaises(outcome) == outcome = "no_response"

\* the exception a fetch ends in for the task: the method raises, or it
\* returns None and the task raises ValueError
FetchError(outcome) ==
    CASE outcome = "found" -> "none"
      [] ServiceRaises(outcome) -> "AttributeError"
      [] OTHER -> "ValueError"

\* whatsapp_service.send_text_message(from_number, text) with the given
\* outcome of the request: the attempt is made, and the task goes on to ok
\* when the method returns and to failed when it raises
Send(t, text, outcome, ok, failed) ==
    [t EXCEPT !.sends = Append(@, [to |-> t.payload.from, text |-> text,
                                   outcome |-> outcome]),
              !.error = IF ServiceRaises(outcome)
                        THEN "AttributeError" ELSE @,
              !.pc = IF ServiceRaises(outcome) THEN failed ELSE ok]

\* POST /webhook has added the task for a payload
TaskInit ==
    /\ NoRun
    /\ VERIFY_TOKEN = None
    /\ webhook = None
    /\ mcp = None
    /\ searchOp = None
    /\ message = None
    /\ \E p \in Payloads :
          task = [payload |-> p, pc |-> "parse", sends |-> << >>,
                  reply |-> "none", file |-> "none", error |-> "none"]

\* lines 159-169: the message, its sender and its type are read; a missing
\* key ends the task in the except clause for KeyError and IndexError
ParsePayload ==
    /\ task.pc = "parse"
    /\ task' = [task EXCEPT
                   !.error = IF task.payload.kind \in {"text", "image"}
                             THEN "none" ELSE "KeyError",
                   !.pc = CASE task.payload.kind = "text" -> "prompt"
                            [] task.payload.kind = "image" -> "media_url"
                            [] OTHER -> "done"]

\* lines 165-167: a message that is no image is answered with the prompt
SendPrompt ==
    /\ task.pc = "prompt"
    /\ \E o \in ApiOutcomes :
          task' = Send(task, "prompt", o, "done", "notice")

\* lines 170-172: the media URL is looked up
GetMediaUrl ==
    /\ task.pc = "media_url"
    /\ \E o \in FetchOutcomes :
          task' = [task EXCEPT
                      !.error = FetchError(o),
                      !.pc = IF o = "found" THEN "download" ELSE "notice"]

\* lines 174-176: the image is downloaded
DownloadMedia ==
    /\ task.pc = "download"
    /\ \E o \in FetchOutcomes :
          task' = [task EXCEPT
                      !.error = FetchError(o),
                      !.pc = IF o = "found" THEN "save" ELSE "notice"]

\* lines 179-181: the image is written to a temporary file
SaveMedia ==
    /\ task.pc = "save"
    /\ \E o \in SaveOutcomes \ {"not_an_image"} :
          task' = [task EXCEPT
                      !.file = IF o = "no_file" THEN "none" ELSE "exists",
                      !.error = IF o = "saved" THEN "none" ELSE "OSError",
                      !.pc = IF o = "saved" THEN "workflow" ELSE "notice"]

\* lines 184-192: the workflow is run and the reply is chosen
RunWorkflow ==
    /\ task.pc = "workflow"
    /\ \E o \in WorkflowOutcomes :
          task' = [task EXCEPT
                      !.reply = CASE o = "report" -> "formatted_report"
                                  [] o = "failed_report" -> "analysis_failed"
                                  [] o = "no_report" -> "apology"
                                  [] OTHER -> "none",
                      !.error = IF o = "raised" THEN "workflow error"
                                ELSE "none",
                      !.pc = IF o = "raised" THEN "remove" ELSE "reply"]

\* line 194: the reply is sent
SendReply ==
    /\ task.pc = "reply"
    /\ \E o \in ApiOutcomes :
          task' = Send(task, task.reply, o, "remove", "remove")

\* lines 195-196: the finally clause removes the temporary file; an
\* exception raised in the try block goes on to the except clause
RemoveFile ==
    /\ task.pc = "remove"
    /\ task' = [task EXCEPT
                   !.file = AfterFinally(@),
                   !.pc = IF task.error = "none" THEN "done" ELSE "notice"]

\* lines 200-203: the except clause for Exception sends the notice; an
\* exception raised by that send leaves the task
SendNotice ==
    /\ task.pc = "notice"
    /\ \E o \in ApiOutcomes :
          task' = Send(task, "notice", o, "done", "escaped")

TaskNext ==
    /\ \/ ParsePayload
       \/ SendPrompt
       \/ GetMediaUrl
       \/ DownloadMedia
       \/ SaveMedia
       \/ RunWorkflow
       \/ SendReply
       \/ RemoveFile
       \/ SendNotice
    /\ UNCHANGED <<VERIFY_TOKEN, webhook, mcp, searchOp, message>>
    /\ UNCHANGED runVars

TaskSpec == TaskInit /\ [][TaskNext]_vars

\* the task is over: it returned, or an exception left it
TaskOver == task.pc \in {"done", "escaped"}

\* ------------------------------------------------------ MCP client manager
\* the most servers a configuration lists
MaxServers == 2

\* the server scripts of the repository and the tools each declares
ServerTools(script) ==
    IF script = "serpapi_server.py"
    THEN <<"search_health_info", "search_food_alternatives">>
    ELSE <<"fetch_website_content">>

\* the entries server_config.json can hold: a name and the script it starts
ServerEntries ==
    {[name |-> "serpapi", script |-> "serpapi_server.py"],
     [name |-> "serpapi_backup", script |-> "serpapi_server.py"],
     [name |-> "website", script |-> "website_content_server.py"]}

\* the configurations: up to MaxServers entries with different names, in
\* the order of the file
ServerConfigs ==
    UNION {{c \in [1..k -> ServerEntries] :
               \A i, j \in 1..k : i # j => c[i].name # c[j].name} :
           k \in 0..MaxServers}

\* what _connect_to_server ends in: the server is connected and its tools
\* are listed, stdio_client fails, entering the ClientSession fails, or
\* initialize or list_tools fails
ConnectOutcomes == {"connected", "no_transport", "no_session", "not_listed"}

\* the contexts _connect_to_server has entered on the exit stack when it
\* ends in outcome
Entered(server, outcome) ==
    CASE outcome = "no_transport" -> << >>
      [] outcome = "no_session" -> <<[server |-> server, of |-> "transport"]>>
      [] OTHER -> <<[server |-> server, of |-> "transport"],
                    [server |-> server, of |-> "session"]>>

\* lines 56-58 for the tools of one server, one after the other
RECURSIVE Register(_, _, _)
Register(m, server, tools) ==
    IF Len(tools) = 0 THEN m
    ELSE Register(
             [m EXCEPT
                 !.tool_to_session = Put(@, Head(tools), server),
                 !.available_tools = Append(@, Head(tools))],
             server, Tail(tools))

\* the module has made the manager and the lifespan starts
McpInit ==
    /\ NoRun
    /\ VERIFY_TOKEN = None
    /\ webhook = None
    /\ task = None
    /\ searchOp = None
    /\ message = None
    /\ \E c \in ServerConfigs :
          mcp = [pc |-> "connecting", todo |-> c, exit_stack |-> << >>,
                 open |-> {}, tool_to_session |-> EmptyDict,
                 available_tools |-> << >>, call |-> None]

\* connect_to_servers connects to the next server of the configuration; a
\* failure is raised again and ends the lifespan
ConnectToServer ==
    /\ mcp.pc = "connecting"
    /\ Len(mcp.todo) > 0
    /\ \E o \in ConnectOutcomes :
          LET server == Head(mcp.todo)
              entered == Entered(server.name, o)
              opened == [mcp EXCEPT
                            !.exit_stack = @ \o entered,
                            !.open = @ \cup {entered[i] : i \in DOMAIN entered},
                            !.todo = Tail(@)]
          IN  mcp' = IF o = "connected"
                     THEN Register(opened, server.name,
                                   ServerTools(server.script))
                     ELSE [opened EXCEPT !.pc = "startup_failed"]

\* lines 38-55 of the lifespan: every server is connected; without both API
\* keys the lifespan raises, otherwise the graph is made and the
\* application serves
FinishStartup ==
    /\ mcp.pc = "connecting"
    /\ Len(mcp.todo) = 0
    /\ \E keys \in BOOLEAN :
          mcp' = [mcp EXCEPT !.pc = IF keys THEN "serving"
                                    ELSE "startup_failed"]

\* the names execute_tool is called with
ToolNames ==
    {"search_health_info", "search_food_alternatives",
     "fetch_website_content", "translate"}

\* execute_tool(tool_name, arguments): the session registered for the name
\* is called, and an error string is returned without one or when the call
\* raises
ExecuteTool ==
    /\ mcp.pc = "serving"
    /\ \E tool_name \in ToolNames, raises \in BOOLEAN :
          LET session == GetD(mcp.tool_to_session, tool_name, "None")
          IN  mcp' = [mcp EXCEPT !.call =
                         [tool_name |-> tool_name,
                          session |-> session,
                          returned |->
                              IF session = "None" THEN "not available"
                              ELSE IF raises THEN "error calling tool"
                              ELSE "content",
                          registry_before |->
                              <<mcp.tool_to_session, mcp.available_tools>>]]

\* cleanup() after the lifespan's yield: the exit stack closes every
\* context entered on it
Cleanup ==
    /\ mcp.pc = "serving"
    /\ mcp' = [mcp EXCEPT !.pc = "stopped", !.open = {},
                          !.exit_stack = << >>]

McpNext ==
    /\ \/ ConnectToServer
       \/ FinishStartup
       \/ ExecuteTool
       \/ Cleanup
    /\ UNCHANGED <<VERIFY_TOKEN, webhook, task, searchOp, message>>
    /\ UNCHANGED runVars

McpSpec == McpInit /\ [][McpNext]_vars

\* the lifespan is over: it raised during startup, or it shut down
LifespanOver == mcp.pc \in {"startup_failed", "stopped"}

\* ---------------------------------------------------------- MCPSearchTool
\* the two search operations and the tool each looks for
SearchOperations == {"search_health_info", "search_alternatives"}

SearchedTool(operation) ==
    IF operation = "search_health_info"
    THEN "search_health_info" ELSE "search_food_alternatives"

\* what the operations are asked for
Queries == {"sugar", "palm oil", "aspartame"}

\* what _create_client ends in: transport and session are open and the
\* session is initialised, stdio_client fails, entering the ClientSession
\* fails, or session.initialize fails
CreateOutcomes == {"created", "no_transport", "no_session", "not_initialized"}

\* what load_mcp_tools gives: the server's tools, tools without the one
\* looked for, or an exception
LoadOutcomes == {"tools", "tool_missing", "load_failed"}

\* what __aexit__ of a context ends in
CloseOutcomes == {"closed", "close_failed"}

\* an operation is called
SearchInit ==
    /\ NoRun
    /\ VERIFY_TOKEN = None
    /\ webhook = None
    /\ task = None
    /\ mcp = None
    /\ message = None
    /\ \E op \in SearchOperations, q \in Queries :
          searchOp = [operation |-> op, query |-> q, pc |-> "create",
                    transport |-> "none", session |-> "none",
                    called |-> "none", result |-> "none"]

\* _create_client, called before the try block of the operation: what it
\* raises leaves the operation
CreateClient ==
    /\ searchOp.pc = "create"
    /\ \E o \in CreateOutcomes :
          searchOp' = [searchOp EXCEPT
                        !.transport = IF o = "no_transport"
                                      THEN "none" ELSE "open",
                        !.session = IF o \in {"created", "not_initialized"}
                                    THEN "open" ELSE "none",
                        !.pc = IF o = "created" THEN "load" ELSE "raised"]

\* the tools of the session are loaded and the one of the operation is
\* looked for; an exception gives the error result
LoadTools ==
    /\ searchOp.pc = "load"
    /\ \E o \in LoadOutcomes :
          searchOp' = [searchOp EXCEPT
                        !.result = CASE o = "tools" -> "none"
                                     [] o = "tool_missing" -> "tool not found"
                                     [] OTHER -> "search failed",
                        !.pc = IF o = "tools" THEN "call"
                               ELSE "close_session"]

\* the tool is called with the query; an exception gives the error result
CallTool ==
    /\ searchOp.pc = "call"
    /\ \E raises \in BOOLEAN :
          searchOp' = [searchOp EXCEPT
                        !.called = SearchedTool(searchOp.operation),
                        !.result = IF raises THEN "search failed"
                                   ELSE "result",
                        !.pc = "close_session"]

\* the finally clause closes the session; an exception of the close goes
\* to the except clause of the cleanup, which prints a warning
CloseSession ==
    /\ searchOp.pc = "close_session"
    /\ \E o \in CloseOutcomes :
          searchOp' = [searchOp EXCEPT
                        !.session = o,
                        !.pc = IF o = "closed" THEN "close_client"
                               ELSE "returned"]

\* the finally clause closes the client transport after the session
CloseClient ==
    /\ searchOp.pc = "close_client"
    /\ \E o \in CloseOutcomes :
          searchOp' = [searchOp EXCEPT !.transport = o, !.pc = "returned"]

SearchNext ==
    /\ \/ CreateClient
       \/ LoadTools
       \/ CallTool
       \/ CloseSession
       \/ CloseClient
    /\ UNCHANGED <<VERIFY_TOKEN, webhook, task, mcp, message>>
    /\ UNCHANGED runVars

SearchSpec == SearchInit /\ [][SearchNext]_vars

\* the operation has returned or raised
SearchOver == searchOp.pc \in {"returned", "raised"}

\* ------------------------------------------------------ message formatter
\* the extracted data of the reports that are formatted, with the product
\* name and the brand the header is made of
FormattedData(validation_status, error_message, product_name, brand) ==
    LET data == ExtractedIngredientsData(validation_status,
                                         <<Lit("sugar")>>, error_message)
    IN  [k \in (DOMAIN data) \cup {"product_name", "brand"} |->
            CASE k = "product_name" -> product_name
              [] k = "brand" -> brand
              [] OTHER -> data[k]]

\* an analysis section of a report: none, or a report with k findings, up to
\* one more than the 3 the formatter shows
AnalysisSections(analysis_type) ==
    {None}
    \cup {HealthAnalysisReport(analysis_type,
              [i \in 1..k |-> Lit(analysis_type \o " finding " \o ToString(i))],
              Lit("detailed analysis"), Lit("High"), None) :
          k \in 0..(MaxFindings + 1)}

\* the alternatives of a report: none, or a report with k alternatives
AlternativesSections ==
    {None}
    \cup {HealthyAlternativesReport(Lit("alternatives summary"),
              [i \in 1..k |->
                  [kind |-> "HealthyAlternative",
                   product_name |-> Lit("alternative " \o ToString(i)),
                   reason |-> Lit("reason " \o ToString(i))]]) :
          k \in 0..MaxAlternatives}

\* the reports format_whatsapp_message is called with
FormattedReports ==
    {[kind |-> "CompleteHealthAnalysis",
      extracted_data |-> FormattedData(v[1], v[2], v[3], v[4]),
      overall_health_assessment |-> v[5],
      benefits_analysis |-> b,
      disadvantages_analysis |-> c,
      disease_analysis |-> d,
      alternatives_report |-> a] :
        v \in ImageValidationStatus
              \X {None, Lit("not a food label")}
              \X {None, Lit("Granola")}
              \X {None, Lit("Acme")}
              \X {None, Lit("Benefits: benefits1.")},
        b \in AnalysisSections("benefits"),
        c \in AnalysisSections("disadvantages"),
        d \in AnalysisSections("disease_associations"),
        a \in AlternativesSections}

\* the headers of the four sections
BenefitsHeader == Lit("\n*Key Benefits:*")
ConcernsHeader == Lit("\n*Key Concerns:*")
DiseasesHeader == Lit("\n*Potential Disease Associations:*")
AlternativesHeader == Lit("\n*Healthier Alternatives:*")

\* mutant: the header is also written for an empty list
SectionParts_EmptyHeader(section, items, header, n) ==
    IF Truthy(section)
    THEN <<header>> \o [i \in 1..Len(Take(items, n)) |->
                           Cat(Lit("- "), Take(items, n)[i])]
    ELSE << >>

\* the parts one section adds to the message: nothing for a missing section
\* or an empty list, else the header and a bullet for each of the first n
\* items
SectionParts(section, items, header, n) ==
    IF Truthy(section) /\ Len(items) > 0
    THEN <<header>> \o [i \in 1..Len(Take(items, n)) |->
                           Cat(Lit("- "), Take(items, n)[i])]
    ELSE << >>

\* the findings of a section, none for a missing section
FindingsOf(section) == IF Truthy(section) THEN section.findings ELSE << >>

\* the alternatives as the formatter writes them: name and reason
AlternativeLines(section) ==
    IF Truthy(section)
    THEN [i \in 1..Len(section.alternatives) |->
             Str(<<"*">> \o section.alternatives[i].product_name.s
                 \o <<":* _">> \o section.alternatives[i].reason.s
                 \o <<"_">>)]
    ELSE << >>

\* format_whatsapp_message(report)
format_whatsapp_message(report) ==
    LET data == report.extracted_data
        product_name == IF Truthy(data.product_name)
                        THEN data.product_name ELSE Lit("The Product")
        brand == IF Truthy(data.brand)
                 THEN Str(<<" (Brand: ">> \o data.brand.s \o <<")">>)
                 ELSE EmptyStr
        header == Str(<<"*Health Analysis for: ">> \o product_name.s
                      \o brand.s \o <<"*">>)
        summary == IF Truthy(report.overall_health_assessment)
                   THEN <<Str(<<"\n*Overall Summary:*\n_">>
                              \o report.overall_health_assessment.s
                              \o <<"_">>)>>
                   ELSE << >>
        message_parts ==
            <<header>> \o summary \o <<Lit("\n--------------------")>>
            \o SectionParts(report.benefits_analysis,
                            FindingsOf(report.benefits_analysis),
                            BenefitsHeader, 3)
            \o SectionParts(report.disadvantages_analysis,
                            FindingsOf(report.disadvantages_analysis),
                            ConcernsHeader, 3)
            \o SectionParts(report.disease_analysis,
                            FindingsOf(report.disease_analysis),
                            DiseasesHeader, 3)
            \o SectionParts(report.alternatives_report,
                            AlternativeLines(report.alternatives_report),
                            AlternativesHeader, 2)
    IN  IF data.validation_status # VALID_FOOD_IMAGE
        THEN Cat(Lit("*Analysis Failed*\n\n"), Format(data.error_message))
        ELSE Join(message_parts, Lit("\n\n"))

\* a report is about to be formatted
FormatInit ==
    /\ NoRun
    /\ VERIFY_TOKEN = None
    /\ webhook = None
    /\ task = None
    /\ mcp = None
    /\ searchOp = None
    /\ \E r \in FormattedReports :
          message = [report |-> r, text |-> None]

\* the report is formatted
FormatMessage ==
    /\ message.text = None
    /\ message' = [message EXCEPT
                      !.text = format_whatsapp_message(message.report)]
    /\ UNCHANGED <<VERIFY_TOKEN, webhook, task, mcp, searchOp>>
    /\ UNCHANGED runVars

FormatNext == FormatMessage

FormatSpec == FormatInit /\ [][FormatNext]_vars

\* ------------------------------------------------------------------ claims
Started(n) == launches[n] > 0

\* how far a node has come in the run
Rank(n) ==
    CASE status[n] = "pending" -> 0
      [] status[n] = "ready" -> 1
      [] status[n] = "running" -> 2
      [] status[n] = "finished" -> 3
      [] status[n] = "done" -> 4

RECURSIVE SumRank(_)
SumRank(ns) ==
    IF ns = {} THEN 0
    ELSE LET n == CHOOSE x \in ns : TRUE IN Rank(n) + SumRank(ns \ {n})

\* grows with every step of a run and is at most 4 per node plus 1
Progress == SumRank(Nodes) + (IF run = "running" THEN 0 ELSE 1)

\* C1: every run ends with a report: whatever the executors of the nodes
\* answer, every step of the run brings it forward, so it takes finitely
\* many steps, and it can only come to rest after compile_final_report has
\* run, ainvoke has returned and the caller has found a final_analysis in
\* the final state.
C1_RunEndsWithReport ==
    /\ [][Progress' > Progress]_vars
    /\ [](AtRest =>
            /\ run = "returned"
            /\ response = "report"
            /\ status[NODE_COMPILE_FINAL_REPORT] = "done"
            /\ state["final_analysis"].kind = "CompleteHealthAnalysis")

\* a run in which an analysis executor and the alternatives executor failed
\* has returned a report
C1_Witness ==
    /\ run = "returned"
    /\ response = "report"
    /\ failedExec[NODE_ANALYZE_DISADVANTAGES]
    /\ failedExec[NODE_RECOMMEND_ALTERNATIVES]

\* C2: the join node recommend_alternatives has not started as long as one
\* of its three producers is pending, ready, running or unmerged.
C2_JoinBarrier ==
    Started(NODE_RECOMMEND_ALTERNATIVES) =>
        \A p \in AnalysisNodes : status[p] = "done"

\* the join node runs after its producers returned in the order diseases,
\* disadvantages, benefits
C2_Witness ==
    /\ status[NODE_RECOMMEND_ALTERNATIVES] = "running"
    /\ finishOrder = <<NODE_EXTRACT_INGREDIENTS, NODE_ANALYZE_DISEASES,
                       NODE_ANALYZE_DISADVANTAGES, NODE_ANALYZE_BENEFITS>>

\* C3: no other node has started before the patch of extract_ingredients is
\* merged into the state.
C3_EntryFirst ==
    \A n \in Nodes \ {NODE_EXTRACT_INGREDIENTS} :
        Started(n) =>
            /\ status[NODE_EXTRACT_INGREDIENTS] = "done"
            /\ state["extracted_data"] =
                   patch[NODE_EXTRACT_INGREDIENTS]["extracted_data"]

\* an analysis node is running while the other two are not started yet
C3_Witness ==
    /\ status[NODE_ANALYZE_DISADVANTAGES] = "running"
    /\ status[NODE_ANALYZE_BENEFITS] = "ready"
    /\ status[NODE_ANALYZE_DISEASES] = "ready"

\* C4: compile_final_report is last: once it has started, every other node
\* has run and is done, so none of them starts or writes state any more.
C4_CompilerLast ==
    Started(NODE_COMPILE_FINAL_REPORT) =>
        \A n \in Nodes \ {NODE_COMPILE_FINAL_REPORT} :
            Started(n) /\ status[n] = "done"

\* the compiler is running
C4_Witness ==
    /\ status[NODE_COMPILE_FINAL_REPORT] = "running"
    /\ ~state["should_stop_processing"].b

\* C5: every node is started at most once in a run and calls its model at
\* most once, the join node and a node whose executor failed included.
C5_LaunchedOnce ==
    \A n \in Nodes :
        /\ launches[n] <= 1
        /\ llmCalls[n] <= 1
        /\ searchCalls[n] <= 1

\* the run has returned, the join node ran once after its three producers
\* and the benefits node, whose executor failed, ran once
C5_Witness ==
    /\ run = "returned"
    /\ launches[NODE_RECOMMEND_ALTERNATIVES] = 1
    /\ \A p \in AnalysisNodes : launches[p] = 1
    /\ failedExec[NODE_ANALYZE_BENEFITS]
    /\ llmCalls[NODE_ANALYZE_BENEFITS] = 1

Returned(n) == status[n] \in {"finished", "done"}
ShortCircuited == state["should_stop_processing"] = Bool(TRUE)
WorkNodes == AnalysisNodes \cup {NODE_RECOMMEND_ALTERNATIVES}

\* the one report an analysis node returned, whatever key it is under
ReturnedReports(n) == {patch[n][k] : k \in DOMAIN patch[n]}

\* C6: in a run whose entry node set should_stop_processing, the three
\* analysis nodes and the alternatives node perform no web search and no
\* model call, and what each returns is its skipped placeholder.
C6_ShortCircuitSkips ==
    ShortCircuited =>
        /\ \A n \in WorkNodes : searchCalls[n] = 0 /\ llmCalls[n] = 0
        /\ \A n \in AnalysisNodes :
              Returned(n) =>
                  \A r \in ReturnedReports(n) :
                      /\ r.kind = "HealthAnalysisReport"
                      /\ r.findings = <<Lit("Analysis skipped")>>
                      /\ r.confidence_level = Lit("N/A")
        /\ Returned(NODE_RECOMMEND_ALTERNATIVES) =>
              patch[NODE_RECOMMEND_ALTERNATIVES]["alternatives_report"] =
                  HealthyAlternativesReport(
                      Lit("Recommendation skipped due to issues in prior analysis."),
                      << >>)

\* a short-circuited run whose extracted data does list ingredients has run
\* all four nodes
C6_Witness ==
    /\ ShortCircuited
    /\ Len(state["extracted_data"].ingredients) > 0
    /\ \A n \in WorkNodes : status[n] = "done"

\* C7: a failing executor does not abort the run: the run never raises, the
\* node whose executor failed returns its error patch (the extractor its
\* error data, an analysis node its error report, the alternatives node its
\* error summary), and a run that has returned has run every node.
C7_FailureContained ==
    /\ run # "raised"
    /\ (failedExec[NODE_EXTRACT_INGREDIENTS]
            /\ Returned(NODE_EXTRACT_INGREDIENTS)) =>
          LET p == patch[NODE_EXTRACT_INGREDIENTS]
          IN  /\ p["extracted_data"].validation_status = ERROR
              /\ Truthy(p["extracted_data"].error_message)
              /\ p["error_message"].kind = "str"
    /\ \A n \in AnalysisNodes :
          (failedExec[n] /\ Returned(n)) =>
              \A r \in ReturnedReports(n) :
                  /\ r.kind = "HealthAnalysisReport"
                  /\ r.confidence_level = Lit("Error")
                  /\ r.detailed_analysis = Lit("chain error")
    /\ (failedExec[NODE_RECOMMEND_ALTERNATIVES]
            /\ Returned(NODE_RECOMMEND_ALTERNATIVES)) =>
          LET r == patch[NODE_RECOMMEND_ALTERNATIVES]["alternatives_report"]
          IN  /\ Take(r.summary.s, 1) = <<"Error generating alternatives: ">>
              /\ r.alternatives = << >>
    /\ run = "returned" =>
          \A n \in Nodes : launches[n] = 1 /\ status[n] = "done"

\* a run in which two analysis executors and the alternatives executor
\* failed has returned
C7_Witness ==
    /\ run = "returned"
    /\ failedExec[NODE_ANALYZE_BENEFITS]
    /\ failedExec[NODE_ANALYZE_DISEASES]
    /\ failedExec[NODE_RECOMMEND_ALTERNATIVES]
    /\ status[NODE_COMPILE_FINAL_REPORT] = "done"

\* C8: once should_stop_processing is true in the state it stays true, also
\* when the nodes that return the whole state are merged.
C8_FlagMonotonic ==
    [][ShortCircuited => (state["should_stop_processing"] = Bool(TRUE))']_vars

\* the flag is set and the states returned by the alternatives node and by
\* the compiler have been merged
C8_Witness ==
    /\ ShortCircuited
    /\ status[NODE_RECOMMEND_ALTERNATIVES] = "done"
    /\ status[NODE_COMPILE_FINAL_REPORT] = "done"
    /\ "should_stop_processing" \in Writes(NODE_COMPILE_FINAL_REPORT)

\* the state field each analysis node is to fill
DeclaredOutput(n) ==
    CASE n = NODE_ANALYZE_BENEFITS -> "benefits_analysis"
      [] n = NODE_ANALYZE_DISADVANTAGES -> "disadvantages_analysis"
      [] n = NODE_ANALYZE_DISEASES -> "disease_analysis"

\* C9: every analysis node writes exactly its declared output field, so once
\* the three analysis nodes are done benefits_analysis,
\* disadvantages_analysis and disease_analysis each hold the report their
\* node returned.
C9_AnalysisFieldsWritten ==
    \A n \in AnalysisNodes :
        status[n] = "done" =>
            /\ Writes(n) = {DeclaredOutput(n)}
            /\ state[DeclaredOutput(n)].kind = "HealthAnalysisReport"
            /\ state[DeclaredOutput(n)] \in ReturnedReports(n)

\* C10: when the join node runs, the three reports it reads are in the
\* state, and none of the summaries it puts in its prompt is the fallback
\* 'Not analyzed.'.
C10_JoinInputsPresent ==
    /\ Started(NODE_RECOMMEND_ALTERNATIVES) =>
          \A n \in AnalysisNodes :
              state[DeclaredOutput(n)].kind = "HealthAnalysisReport"
    /\ altPrompt # None =>
          /\ altPrompt.benefits_summary # Lit("Not analyzed.")
          /\ altPrompt.disadvantages_summary # Lit("Not analyzed.")
          /\ altPrompt.disease_summary # Lit("Not analyzed.")

\* the state fields each node is the producer of
ProducedFields(n) ==
    CASE n = NODE_EXTRACT_INGREDIENTS ->
             {"extracted_data", "should_stop_processing", "error_message"}
      [] n \in AnalysisNodes -> {DeclaredOutput(n)}
      [] n = NODE_RECOMMEND_ALTERNATIVES -> {"alternatives_report"}
      [] n = NODE_COMPILE_FINAL_REPORT -> {"final_analysis"}

\* C11: every state field has one producer and is written at most once in a
\* run: the channels a node's returned dict writes are all fields that node
\* produces, also for the nodes that return the state they were given.
C11_SingleProducer ==
    \A n \in Nodes : Returned(n) => Writes(n) \subseteq ProducedFields(n)

\* the fields the nodes of the current step produce
StepOutputs == UNION {ProducedFields(n) : n \in Finished}

\* C12: a node other than the entry node changes no state outside its own
\* output field: what its returned dict holds for any other field is the
\* value in the state, and when the step it ran in is merged every field
\* that no node of the step produces keeps its value and the state has the
\* fields of the schema and no other.
C12_FrameKept ==
    [][(StepEnded /\ NODE_EXTRACT_INGREDIENTS \notin Finished) =>
          /\ \A n \in Finished :
                \A k \in Writes(n) \ ProducedFields(n) : patch[n][k] = state[k]
          /\ \A k \in StateKeys \ StepOutputs : state'[k] = state[k]
          /\ DOMAIN state' = StateKeys]_vars

\* a run that was not short-circuited is over: the disease node returned a
\* key the schema does not have, and the alternatives node and the compiler
\* returned the whole state
C12_Witness ==
    /\ run = "returned"
    /\ ~ShortCircuited
    /\ "disease_associations_analysis" \in DOMAIN patch[NODE_ANALYZE_DISEASES]
    /\ "current_task_start_time" \in DOMAIN patch[NODE_RECOMMEND_ALTERNATIVES]
    /\ "extracted_data" \in Writes(NODE_RECOMMEND_ALTERNATIVES)
    /\ "extracted_data" \in Writes(NODE_COMPILE_FINAL_REPORT)

\* C13: the dicts returned by two nodes of the same step have no key in
\* common, so no state channel gets two values in one step and no step of a
\* run is rejected.
C13_WaveDisjoint ==
    /\ \A n, m \in Finished :
          n # m => (DOMAIN patch[n]) \cap (DOMAIN patch[m]) = {}
    /\ ~(StepEnded /\ Conflict)

\* the three analysis nodes have returned in the same step, each with the
\* report its model answered, and the step is about to be merged
C13_Witness ==
    /\ Finished = AnalysisNodes
    /\ StepEnded
    /\ \A n \in AnalysisNodes :
          /\ llmCalls[n] = 1
          /\ ~failedExec[n]
          /\ DOMAIN patch[n] = {AnalysisOutputKey(AnalysisType(n))}

\* the state after the dict p is written to the channels of s
Merge(s, p) ==
    [k \in StateKeys |-> IF k \in DOMAIN p THEN p[k] ELSE s[k]]

\* the state after the dicts the nodes of order returned are written to s
\* one after the other
RECURSIVE MergeSeq(_, _)
MergeSeq(s, order) ==
    IF Len(order) = 0 THEN s
    ELSE MergeSeq(Merge(s, patch[Head(order)]), Tail(order))

\* the orders the three analysis nodes can return in
CompletionOrders ==
    {o \in [1..Cardinality(AnalysisNodes) -> AnalysisNodes] :
        \A i, j \in DOMAIN o : i # j => o[i] # o[j]}

\* the state the analysis nodes ran on
StateAfterEntry ==
    Merge(InitialState(caller), patch[NODE_EXTRACT_INGREDIENTS])

\* C14: the merge does not depend on the order the three analysis nodes
\* return in: written one after the other in any order their dicts give the
\* same state, that state is the state the join node is run on, the join
\* node's dict is an answer to that state, and the final state and the
\* report in it are the ones compiled from it.
C14_MergeOrderIndependent ==
    LET SomeOrder == CHOOSE o \in CompletionOrders : TRUE
        atJoin == MergeSeq(StateAfterEntry, SomeOrder)
        afterJoin == Merge(atJoin, patch[NODE_RECOMMEND_ALTERNATIVES])
    IN  /\ Finished = AnalysisNodes =>
              \A o \in CompletionOrders :
                  MergeSeq(StateAfterEntry, o) = atJoin
        /\ status[NODE_RECOMMEND_ALTERNATIVES] \in {"ready", "running"} =>
              state = atJoin
        /\ status[NODE_RECOMMEND_ALTERNATIVES] = "finished" =>
              \E a \in AlternativesOutcomes :
                  patch[NODE_RECOMMEND_ALTERNATIVES] =
                      AlternativesRecommenderNode(Visible(atJoin), a).ret
        /\ run = "returned" =>
              /\ state = Merge(afterJoin, patch[NODE_COMPILE_FINAL_REPORT])
              /\ state["final_analysis"] =
                     CompileFinalReportNode(Visible(afterJoin))
                         .ret["final_analysis"]

\* a run has returned in which the analysis nodes returned their model's
\* findings in the order disadvantages, diseases, benefits
C14_Witness ==
    /\ run = "returned"
    /\ SubSeq(finishOrder, 2, 4) =
           <<NODE_ANALYZE_DISADVANTAGES, NODE_ANALYZE_DISEASES,
             NODE_ANALYZE_BENEFITS>>
    /\ \A n \in AnalysisNodes : llmCalls[n] = 1 /\ ~failedExec[n]
    /\ state["final_analysis"].benefits_analysis
           = patch[NODE_ANALYZE_BENEFITS]["benefits_analysis"]

\* C15: compile_final_report_node never raises: in every state it is run on
\* the call builds the report, and once it has returned its dict holds a
\* CompleteHealthAnalysis with the extracted data the entry node stored.
C15_CompilerNeverFails ==
    /\ status[NODE_COMPILE_FINAL_REPORT] \in {"ready", "running"} =>
          /\ ~CompileFinalReportNode(Visible(state)).raised
          /\ state["extracted_data"].kind = "ExtractedIngredientsData"
    /\ Returned(NODE_COMPILE_FINAL_REPORT) =>
          /\ run # "raised"
          /\ LET report == patch[NODE_COMPILE_FINAL_REPORT]["final_analysis"]
             IN  /\ report.kind = "CompleteHealthAnalysis"
                 /\ report.extracted_data =
                        patch[NODE_EXTRACT_INGREDIENTS]["extracted_data"]

\* the compiler has returned in a run started with image_path alone: the
\* disease field is absent, one analysis executor failed and another
\* returned no finding
C15_Witness ==
    /\ caller = "whatsapp"
    /\ Returned(NODE_COMPILE_FINAL_REPORT)
    /\ state["disease_analysis"] = Absent
    /\ failedExec[NODE_ANALYZE_BENEFITS]
    /\ state["disadvantages_analysis"].findings = << >>

\* the report the caller is given
FinalReport == state["final_analysis"]
Reported == run = "returned" /\ response = "report"

\* every node returned what its executor answered
AllNormal ==
    /\ ~ShortCircuited
    /\ \A n \in Nodes : ~failedExec[n]

\* C16: every report has an overall status field, and in a run that was not
\* short-circuited and in which no executor failed its value is complete.
C16_ReportHasStatus ==
    Reported =>
        /\ "status" \in DOMAIN FinalReport
        /\ AllNormal => FinalReport.status = Lit("complete")

\* whether the text of part ends the text of whole
EndsWith(whole, part) ==
    /\ Len(part.s) <= Len(whole.s)
    /\ SubSeq(whole.s, Len(whole.s) - Len(part.s) + 1, Len(whole.s)) = part.s

\* C17: when should_stop_processing is true at the time the compiler runs,
\* error_message is a string, the user summary of the report says that the
\* analysis could not be completed and ends with that string as the reason,
\* and the report has no overall_health_assessment.
C17_ShortCircuitSummary ==
    /\ (status[NODE_COMPILE_FINAL_REPORT] \in {"ready", "running"}
            /\ ShortCircuited) =>
          state["error_message"].kind = "str"
    /\ (Returned(NODE_COMPILE_FINAL_REPORT) /\ ShortCircuited) =>
          LET report == patch[NODE_COMPILE_FINAL_REPORT]["final_analysis"]
              summary == report.final_summary_message_for_user
          IN  /\ summary.kind = "str"
              /\ Take(summary.s, 1) = <<"Analysis could not be completed for ">>
              /\ EndsWith(summary, Cat(Lit(". Reason: "), state["error_message"]))
              /\ state["error_message"] =
                     patch[NODE_EXTRACT_INGREDIENTS]["error_message"]
              /\ report.overall_health_assessment = None

\* the report of a run stopped for an image that is no food label, whose
\* reason is the message the vision model gave
C17_Witness ==
    /\ Reported
    /\ ShortCircuited
    /\ state["extracted_data"].validation_status = INVALID_NOT_FOOD
    /\ state["error_message"] = Lit("not a food label")
    /\ FinalReport.final_summary_message_for_user =
           Str(<<"Analysis could not be completed for ", "/tmp/upload.jpg",
                 ". Reason: ", "not a food label">>)

\* an executor of an analysis node or of the alternatives node failed
SomeExecutorFailed == \E n \in WorkNodes : failedExec[n]

\* the dicts an analysis node can return for state s when its executor
\* answers, and the ones the alternatives node can
NormalAnalysisDicts(n, s) ==
    {AnalysisNode(AnalysisType(n), Visible(s), "results", c).ret :
        c \in {x \in ChainOutcomes : x.kind = "report"}}
NormalAlternativesDicts(s) ==
    {AlternativesRecommenderNode(Visible(s), a).ret :
        a \in {x \in AlternativesOutcomes :
                  x.kind = "answer" /\ x.n <= MaxAlternatives}}

\* the reports of the runs on the entry node's state in which every executor
\* answers
NormalReports ==
    LET s1 == StateAfterEntry
        joins == {Merge(Merge(Merge(s1, b), d), a) :
                    b \in NormalAnalysisDicts(NODE_ANALYZE_BENEFITS, s1),
                    d \in NormalAnalysisDicts(NODE_ANALYZE_DISADVANTAGES, s1),
                    a \in NormalAnalysisDicts(NODE_ANALYZE_DISEASES, s1)}
        compiled == UNION {{Merge(s2, r) : r \in NormalAlternativesDicts(s2)} :
                              s2 \in joins}
    IN  {CompileFinalReportNode(Visible(s3)).ret["final_analysis"] :
            s3 \in compiled}

\* C18: the report of a run that was not short-circuited and in which the
\* executor of an analysis node or of the alternatives node failed is marked
\* degraded, and it is not a report a run in which every executor answered
\* can give.
C18_DegradedMarked ==
    (Reported /\ ~ShortCircuited /\ SomeExecutorFailed) =>
        /\ FinalReport \notin NormalReports
        /\ "status" \in DOMAIN FinalReport
        /\ FinalReport.status = Lit("degraded")

\* whether the text of part occurs in the text of whole
Contains(whole, part) ==
    \E i \in 1..(Len(whole.s) - Len(part.s) + 1) :
        SubSeq(whole.s, i, i + Len(part.s) - 1) = part.s

\* the report field of each analysis node's section
ReportSection(n) == FinalReport[DeclaredOutput(n)]

\* every analysis node returned a report with at least one finding
AllReturnedFindings ==
    \A n \in AnalysisNodes :
        /\ ReturnedReports(n) # {}
        /\ \A r \in ReturnedReports(n) : Len(r.findings) > 0

\* C19: in a run that was not short-circuited and in which each of the three
\* analysis nodes returned at least one finding, the report holds three
\* non-empty finding lists and its summary contains the first finding of
\* each of the three.
C19_SummaryReferencesFindings ==
    (Reported /\ ~ShortCircuited /\ AllReturnedFindings) =>
        \A n \in AnalysisNodes :
            /\ ReportSection(n).kind = "HealthAnalysisReport"
            /\ Len(ReportSection(n).findings) > 0
            /\ Contains(FinalReport.final_summary_message_for_user,
                        ReportSection(n).findings[1])

\* C20: in the report of a short-circuited run the three analysis sections
\* and the alternatives section are present, each is the skipped
\* placeholder, and none holds a finding of an analysis or an alternative.
C20_SkippedSections ==
    (Reported /\ ShortCircuited) =>
        /\ \A n \in AnalysisNodes :
              /\ ReportSection(n).kind = "HealthAnalysisReport"
              /\ ReportSection(n).findings = <<Lit("Analysis skipped")>>
              /\ ReportSection(n).confidence_level = Lit("N/A")
        /\ FinalReport.alternatives_report.kind = "HealthyAlternativesReport"
        /\ FinalReport.alternatives_report.summary =
               Lit("Recommendation skipped due to issues in prior analysis.")
        /\ FinalReport.alternatives_report.alternatives = << >>

\* the run has a step to take that does not need node n to return
CanGoOnWithout(n) ==
    \/ \E m \in Nodes \ {n} : CanLaunch(m) \/ CanComplete(m)
    \/ StepEnded
    \/ NothingTriggered

\* C21: a run does not wait for a node that is still running when its
\* deadline passes: at whatever moment the deadline falls, a run with a
\* running node has a step to take that does not need that node to return.
C21_DeadlineEndsRun ==
    \A n \in Nodes : status[n] = "running" => CanGoOnWithout(n)

\* C22: the report is made once, by the compiler node, and no caller changes
\* it: after the caller has handled the report, every field of it has the
\* value compile_final_report_node returned.
C22_ReportNeverChanged ==
    Reported =>
        /\ state["final_analysis"] =
               patch[NODE_COMPILE_FINAL_REPORT]["final_analysis"]
        /\ callerReport = patch[NODE_COMPILE_FINAL_REPORT]["final_analysis"]

\* the nodes that can be reached from the nodes in from along edges
RECURSIVE ReachableFrom(_)
ReachableFrom(from) ==
    LET further == from \cup Successors(from)
    IN  IF further = from THEN from ELSE ReachableFrom(further)

\* the nodes an edge leads to n from
Dependencies(n) == {m \in Nodes : <<m, n>> \in Edges}

\* the nodes of the graph the run is on
RunNodes == DOMAIN status

\* C23: the graph a run is on has no cycle, extract_ingredients is its one
\* node without dependencies and the one START leads to,
\* compile_final_report is its one node without dependents and the one that
\* leads to END, and every node lies on a path from extract_ingredients to
\* compile_final_report.
C23_Topology ==
    /\ \A n \in RunNodes : n \notin ReachableFrom(Successors({n}))
    /\ {n \in RunNodes : Dependencies(n) = {}} = {NODE_EXTRACT_INGREDIENTS}
    /\ {n \in RunNodes : Successors({n}) = {}} = {NODE_COMPILE_FINAL_REPORT}
    /\ Successors({START}) = {NODE_EXTRACT_INGREDIENTS}
    /\ {n \in RunNodes : <<n, END>> \in Edges} = {NODE_COMPILE_FINAL_REPORT}
    /\ \A n \in RunNodes :
          /\ n \in ReachableFrom({NODE_EXTRACT_INGREDIENTS})
          /\ NODE_COMPILE_FINAL_REPORT \in ReachableFrom({n})

\* a run has gone through the whole graph, from the entry node to the
\* compiler
C23_Witness ==
    /\ run = "returned"
    /\ Len(finishOrder) = Cardinality(Nodes)
    /\ Head(finishOrder) = NODE_EXTRACT_INGREDIENTS
    /\ finishOrder[Len(finishOrder)] = NODE_COMPILE_FINAL_REPORT
    /\ caller = "cli"

\* ---------------------------------------------------------------- two runs
\* A second handler runs the graph the lifespan built while the first run is
\* under way.  Each handler passes the initial_state it has just made to
\* ainvoke, and each ainvoke call has channels of its own.

\* the second handler's temporary file: NamedTemporaryFile gives every file a
\* name of its own
OtherImagePath == Lit("/tmp/upload_2.jpg")

\* the initial_state of the second handler
OtherInitialState(c) ==
    [InitialState(c) EXCEPT !["image_path"] = OtherImagePath]

\* what the world outside answers in the second run: the label is read, it
\* lists one ingredient, every search gives results and every model answers
\* with one finding or one alternative
OtherExtractOutcomes ==
    {o \in ExtractOutcomes :
        /\ o.kind = "parsed"
        /\ o.data.validation_status = VALID_FOOD_IMAGE
        /\ Len(o.data.ingredients) = 1
        /\ o.data.error_message = None}

OtherChainOutcomes == {o \in ChainOutcomes : o.kind = "report" /\ o.n = 1}

OtherAlternativesOutcomes ==
    {o \in AlternativesOutcomes : o.kind = "answer" /\ o.n = 1}

\* the steps of a run: entry node, analysis nodes, join node, compiler
LastStep == Cardinality({NODE_EXTRACT_INGREDIENTS, NODE_RECOMMEND_ALTERNATIVES,
                         NODE_COMPILE_FINAL_REPORT}) + 1

\* the dicts the nodes of a step of the second run can return on the
\* channels s, the dicts of the three analysis nodes taken together
OtherReturns(step, s) ==
    CASE step = 0 ->
           {IngredientExtractorNode(Visible(s), o).ret :
                o \in OtherExtractOutcomes}
      [] step = 1 ->
           {LET ret(n) == AnalysisNode(AnalysisType(n), Visible(s),
                                       "results", chain).ret
            IN  [k \in UNION {DOMAIN ret(n) : n \in AnalysisNodes} |->
                    ret(CHOOSE n \in AnalysisNodes : k \in DOMAIN ret(n))[k]] :
                chain \in OtherChainOutcomes}
      [] step = 2 ->
           {AlternativesRecommenderNode(Visible(s), o).ret :
                o \in OtherAlternativesOutcomes}
      [] OTHER ->
           {CompileFinalReportNode(Visible(s)).ret}

\* the second run when its handler calls ainvoke
OtherRun(c) ==
    [kind |-> "run", caller |-> c, step |-> 0,
     state |-> OtherInitialState(c), report |-> None, returned |-> FALSE]

\* the handlers that run at the same time: an /analyze request and a
\* WhatsApp background task
ConcurrentCallers == {<<"analyze", "whatsapp">>}

TwoRunInit ==
    /\ \E pair \in ConcurrentCallers :
          /\ Start(pair[1], "running", "exists")
          /\ other = OtherRun(pair[2])
    /\ ServicesIdle

\* mutant: both ainvoke calls work on the same channels
OtherRunStep_SharedChannels ==
    /\ other.kind = "run"
    /\ other.step < LastStep
    /\ \E ret \in OtherReturns(other.step, state) :
          /\ state' = Merge(state, ret)
          /\ other' = [other EXCEPT !.step = @ + 1]
    /\ UNCHANGED <<caller, status, patch, launches, searchCalls, llmCalls,
                   failedExec, finishOrder, altPrompt, run, response,
                   tempFile, callerReport>>
    /\ UNCHANGED serviceVars

\* a step of the second run: its nodes read its channels and the dicts they
\* return are written to its channels
OtherRunStep ==
    /\ other.kind = "run"
    /\ other.step < LastStep
    /\ \E ret \in OtherReturns(other.step, other.state) :
          other' = [other EXCEPT !.state = Merge(@, ret), !.step = @ + 1]
    /\ UNCHANGED <<caller, state, status, patch, launches, searchCalls,
                   llmCalls, failedExec, finishOrder, altPrompt, run,
                   response, tempFile, callerReport>>
    /\ UNCHANGED serviceVars

\* ainvoke returns to the second handler, which reads final_analysis from
\* the final state
OtherReturn ==
    /\ other.kind = "run"
    /\ other.step = LastStep
    /\ ~other.returned
    /\ other' = [other EXCEPT
                    !.report = Get(Visible(other.state), "final_analysis"),
                    !.returned = TRUE]
    /\ UNCHANGED <<caller, state, status, patch, launches, searchCalls,
                   llmCalls, failedExec, finishOrder, altPrompt, run,
                   response, tempFile, callerReport>>
    /\ UNCHANGED serviceVars

TwoRunNext ==
    \/ OtherRunStep
    \/ OtherReturn
    \/ Next

TwoRunSpec == TwoRunInit /\ [][TwoRunNext]_vars

\* the channels the second run can have after the given number of steps when
\* it runs alone
RECURSIVE OtherStatesAlone(_, _)
OtherStatesAlone(c, step) ==
    IF step = 0 THEN {OtherInitialState(c)}
    ELSE UNION {{Merge(s, ret) : ret \in OtherReturns(step - 1, s)} :
                    s \in OtherStatesAlone(c, step - 1)}

\* the values the first run itself has put in channel k: the one its handler
\* passed in and those its nodes returned
OwnValues(k) ==
    {InitialState(caller)[k]}
    \cup {patch[n][k] : n \in {m \in Nodes : k \in DOMAIN patch[m]}}

C25_FanOut ==
    /\ [][(status[NODE_EXTRACT_INGREDIENTS] = "finished"
              /\ status'[NODE_EXTRACT_INGREDIENTS] = "done") =>
             \A n \in AnalysisNodes : status'[n] = "ready"]_vars
    /\ [](\A n \in AnalysisNodes :
             /\ (status[NODE_EXTRACT_INGREDIENTS] = "done" /\ ~Started(n))
                    => CanLaunch(n)
             /\ status[n] = "running" => CanComplete(n))

\* the disease node has returned while the disadvantages node is running and
\* the benefits node has not started
C25_Witness ==
    /\ status[NODE_ANALYZE_DISEASES] = "finished"
    /\ status[NODE_ANALYZE_DISADVANTAGES] = "running"
    /\ status[NODE_ANALYZE_BENEFITS] = "ready"

\* the text of the first two of the findings, with a comma between them
FirstTwo(findings) ==
    CASE Len(findings) = 0 -> << >>
      [] Len(findings) = 1 -> findings[1].s
      [] OTHER -> findings[1].s \o <<", ">> \o findings[2].s

\* the sentences the summary of a report is made of
SummarySentences(r) ==
    LET findingsOf(section) ==
            IF section.kind = "HealthAnalysisReport"
            THEN section.findings ELSE << >>
        sentence(label, findings) ==
            IF Len(findings) = 0 THEN << >>
            ELSE <<(<<label>> \o FirstTwo(findings) \o <<".">>)>>
        alternatives ==
            IF r.alternatives_report.kind # "HealthyAlternativesReport"
            THEN << >>
            ELSE IF Len(r.alternatives_report.alternatives) > 0
            THEN <<(<<"Consider alternatives like: ">>
                    \o r.alternatives_report.alternatives[1].product_name.s
                    \o <<".">>)>>
            ELSE <<r.alternatives_report.summary.s>>
    IN  sentence("Benefits: ", findingsOf(r.benefits_analysis))
        \o sentence("Concerns: ", findingsOf(r.disadvantages_analysis))
        \o alternatives

\* the sentences with a blank between them
RECURSIVE Spaced(_)
Spaced(sentences) ==
    IF Len(sentences) = 0 THEN << >>
    ELSE IF Len(sentences) = 1 THEN sentences[1]
    ELSE sentences[1] \o <<" ">> \o Spaced(Tail(sentences))

\* C26: in a run that is not short-circuited the summary of the report is
\* made by fixed rules: a sentence with the first two benefits findings at
\* most, one with the first two disadvantages findings at most, then the
\* product name of the first alternative or, when there is no alternative,
\* the summary of the alternatives report; it is 'Basic analysis complete.'
\* when there is no such sentence, and overall_health_assessment is the same
\* text.
C26_SummaryRules ==
    (status[NODE_COMPILE_FINAL_REPORT] = "finished" /\ ~ShortCircuited) =>
        LET r == patch[NODE_COMPILE_FINAL_REPORT]["final_analysis"]
            sentences == SummarySentences(r)
        IN  /\ r.final_summary_message_for_user.kind = "str"
            /\ r.final_summary_message_for_user.s =
                   IF Len(sentences) = 0
                   THEN <<"Basic analysis complete.">>
                   ELSE Spaced(sentences)
            /\ r.overall_health_assessment = r.final_summary_message_for_user

\* the compiler has returned the report of a run with more than two benefits
\* findings, more than two disadvantages findings and two alternatives; the
\* third findings and the second alternative are not in the summary
C26_Witness ==
    /\ status[NODE_COMPILE_FINAL_REPORT] = "finished"
    /\ ~ShortCircuited
    /\ LET r == patch[NODE_COMPILE_FINAL_REPORT]["final_analysis"]
       IN  /\ Len(r.benefits_analysis.findings) > 2
           /\ Len(r.disadvantages_analysis.findings) > 2
           /\ Len(r.alternatives_report.alternatives) = 2
           /\ ~Contains(r.final_summary_message_for_user,
                        r.benefits_analysis.findings[3])
           /\ ~Contains(r.final_summary_message_for_user,
                        r.alternatives_report.alternatives[2].product_name)
           /\ Contains(r.final_summary_message_for_user,
                       r.disadvantages_analysis.findings[2])

\* whether the summary of the report is the compiler's short-circuit text
SummaryIsShortCircuit(r) ==
    /\ r.final_summary_message_for_user.kind = "str"
    /\ Take(r.final_summary_message_for_user.s, 1)
           = <<"Analysis could not be completed for ">>

\* C27: on every path of the entry node the dict it returns holds an
\* ExtractedIngredientsData and a should_stop_processing that is true
\* exactly when the validation status is not valid_food_image; so the
\* reports with the compiler's short-circuit summary are the reports the
\* WhatsApp formatter turns into its 'Analysis Failed' message.
C27_StopIffNotValid ==
    /\ Returned(NODE_EXTRACT_INGREDIENTS) =>
          LET p == patch[NODE_EXTRACT_INGREDIENTS]
          IN  /\ p["extracted_data"].kind = "ExtractedIngredientsData"
              /\ p["should_stop_processing"] =
                     Bool(p["extracted_data"].validation_status
                              # VALID_FOOD_IMAGE)
    /\ status[NODE_COMPILE_FINAL_REPORT] = "finished" =>
          LET r == patch[NODE_COMPILE_FINAL_REPORT]["final_analysis"]
          IN  SummaryIsShortCircuit(r) <=> FormatsAsFailed(r)

\* the compiler has returned the short-circuit report of a WhatsApp run on
\* an image of poor quality
C27_Witness ==
    /\ caller = "whatsapp"
    /\ status[NODE_COMPILE_FINAL_REPORT] = "finished"
    /\ state["extracted_data"].validation_status = INVALID_POOR_QUALITY
    /\ SummaryIsShortCircuit(patch[NODE_COMPILE_FINAL_REPORT]["final_analysis"])
    /\ FormatsAsFailed(patch[NODE_COMPILE_FINAL_REPORT]["final_analysis"])

\* the entry node found a valid image but no ingredient
NoIngredients ==
    /\ status[NODE_EXTRACT_INGREDIENTS] = "done"
    /\ ~ShortCircuited
    /\ Len(state["extracted_data"].ingredients) = 0

\* C28: in a run that is not short-circuited but whose ingredient list is
\* empty, every analysis node returns the 'Missing ingredients' placeholder
\* with confidence 'Low' without a search or a model call, and the
\* alternatives node of the run still calls its model and returns what comes
\* of the call.
C28_MissingIngredients ==
    NoIngredients =>
        /\ \A n \in AnalysisNodes :
              /\ searchCalls[n] = 0
              /\ llmCalls[n] = 0
              /\ Returned(n) =>
                    \A r \in ReturnedReports(n) :
                        /\ r.findings = <<Lit("Missing ingredients")>>
                        /\ r.confidence_level = Lit("Low")
        /\ Returned(NODE_RECOMMEND_ALTERNATIVES) =>
              /\ llmCalls[NODE_RECOMMEND_ALTERNATIVES] = 1
              /\ altPrompt # None
              /\ patch[NODE_RECOMMEND_ALTERNATIVES]["alternatives_report"]
                     .summary \in
                       {Lit("alternatives summary"),
                        Str(<<"Error generating alternatives: ", "chain error">>),
                        Str(<<"Error generating alternatives: ",
                              "Maximum 3 alternatives should be provided">>)}

\* a run without ingredients has returned a report with two alternatives
C28_Witness ==
    /\ NoIngredients
    /\ Reported
    /\ \A n \in AnalysisNodes : launches[n] = 1
    /\ Len(FinalReport.alternatives_report.alternatives) = 2
    /\ FinalReport.benefits_analysis.findings = <<Lit("Missing ingredients")>>

\* the alternatives reports a run holds: the one the node returned, the one
\* in the state and the one in the final report
AlternativesReportsHeld ==
    {r \in {Get(patch[NODE_RECOMMEND_ALTERNATIVES], "alternatives_report"),
            state["alternatives_report"],
            IF FinalReport.kind = "CompleteHealthAnalysis"
            THEN FinalReport.alternatives_report ELSE None,
            IF callerReport.kind = "CompleteHealthAnalysis"
            THEN callerReport.alternatives_report ELSE None} :
        r.kind = "HealthyAlternativesReport"}

\* C29: an alternatives report in the state or in the final report never
\* lists more than 3 alternatives, and the report of an alternatives node
\* whose model call failed or whose answer was rejected lists none.
C29_AtMostThreeAlternatives ==
    /\ \A r \in AlternativesReportsHeld : Len(r.alternatives) <= 3
    /\ (Returned(NODE_RECOMMEND_ALTERNATIVES)
            /\ failedExec[NODE_RECOMMEND_ALTERNATIVES]) =>
          \A r \in AlternativesReportsHeld :
              /\ r.alternatives = << >>
              /\ Take(r.summary.s, 1) = <<"Error generating alternatives: ">>

\* the report of a run in which the model answered with more alternatives
\* than the validator allows
C29_Witness ==
    /\ Reported
    /\ FinalReport.alternatives_report =
           HealthyAlternativesReport(
               Str(<<"Error generating alternatives: ",
                     "Maximum 3 alternatives should be provided">>),
               << >>)

\* C30: when a handler has finished, the temporary image file it made is
\* gone, whether the workflow returned a report, returned none or raised.
C30_TempFileRemoved ==
    HandlerFinished => tempFile # "exists"

\* C31: GET /webhook answers 200 with the challenge exactly for a request
\* whose hub.mode is subscribe and which supplies a hub.verify_token equal to
\* the configured one; every other request gets 403, a request without a
\* token among them whatever is configured.
C31_WebhookVerified ==
    webhook # None =>
        /\ webhook.answer.status_code \in {200, 403}
        /\ webhook.answer.status_code = 200 <=>
              /\ webhook.mode = Lit("subscribe")
              /\ webhook.token # None
              /\ webhook.token = VERIFY_TOKEN
        /\ webhook.answer.status_code = 200 =>
              webhook.answer.content = webhook.challenge

\* C32: for a payload whose sender and message type can be read the
\* background task makes exactly one attempt to send a reply and no
\* exception leaves it.
C32_OneReplyAttempt ==
    (task # None /\ task.payload.kind # "no_message") =>
        /\ Len(task.sends) <= 1
        /\ task.pc # "escaped"
        /\ TaskOver => Len(task.sends) = 1

\* C33: every MCP server connection opened during startup is closed in the
\* end: once the lifespan is over, after a shutdown or after a startup that
\* failed with some servers connected, no connection is open.
C33_ConnectionsClosed ==
    (mcp # None /\ LifespanOver) => mcp.open = {}

\* the tools the server registered under the given name declares
DeclaredBy(name) ==
    UNION {{ServerTools(e.script)[i] : i \in DOMAIN ServerTools(e.script)} :
           e \in {x \in ServerEntries : x.name = name}}

\* C34: after any sequence of server connections the tool registry is
\* consistent: every tool of get_tools() has a session in tool_to_session,
\* no tool name appears twice in get_tools(), execute_tool calls the session
\* of a server that declared the tool, and for a name that is not
\* registered it returns the error string and leaves the registry as it was.
C34_RegistryConsistent ==
    mcp # None =>
        /\ \A i \in DOMAIN mcp.available_tools :
              mcp.available_tools[i] \in DOMAIN mcp.tool_to_session
        /\ \A i, j \in DOMAIN mcp.available_tools :
              i # j => mcp.available_tools[i] # mcp.available_tools[j]
        /\ mcp.call # None =>
              /\ mcp.call.returned = "not available" <=>
                     mcp.call.tool_name \notin DOMAIN mcp.tool_to_session
              /\ mcp.call.session # "None" =>
                     mcp.call.tool_name \in DeclaredBy(mcp.call.session)
              /\ mcp.call.registry_before =
                     <<mcp.tool_to_session, mcp.available_tools>>

\* C35: when a search operation is over the client transport and the
\* session it opened are both closed, also when the tool is not found, the
\* call fails, the session cannot be initialised or the close of the session
\* fails.
C35_SearchClientClosed ==
    (searchOp # None /\ SearchOver) =>
        /\ searchOp.transport \in {"none", "closed"}
        /\ searchOp.session \in {"none", "closed"}

\* the places of a piece in a formatted text
Places(text, piece) == {i \in DOMAIN text.s : text.s[i] = piece}

\* the content of a section in the order it is to be shown: its header,
\* then its items
Outlined(header, items) ==
    <<header.s[1]>> \o [i \in DOMAIN items |-> items[i].s[1]]

\* C36: the message is made from the report alone: for a report that is not
\* of a valid food image it is the 'Analysis Failed' line with the error
\* message and nothing else; otherwise a section appears exactly when its
\* list is not empty, with the first 3 findings or the first 2 alternatives
\* and no others, each once, in the order benefits, concerns, disease
\* associations, alternatives.
C36_MessageSections ==
    (message # None /\ message.text # None) =>
        LET r == message.report
            text == message.text
            b == FindingsOf(r.benefits_analysis)
            c == FindingsOf(r.disadvantages_analysis)
            d == FindingsOf(r.disease_analysis)
            a == IF Truthy(r.alternatives_report)
                 THEN [i \in DOMAIN r.alternatives_report.alternatives |->
                          r.alternatives_report.alternatives[i].product_name]
                 ELSE << >>
            sections == <<<<BenefitsHeader, b, 3>>, <<ConcernsHeader, c, 3>>,
                          <<DiseasesHeader, d, 3>>,
                          <<AlternativesHeader, a, 2>>>>
            outline == Outlined(BenefitsHeader, b) \o Outlined(ConcernsHeader, c)
                       \o Outlined(DiseasesHeader, d)
                       \o Outlined(AlternativesHeader, a)
            shown == {i \in DOMAIN outline : Places(text, outline[i]) # {}}
        IN  IF r.extracted_data.validation_status # VALID_FOOD_IMAGE
            THEN text = Str(<<"*Analysis Failed*\n\n">>
                            \o Format(r.extracted_data.error_message).s)
            ELSE /\ \A k \in DOMAIN sections :
                       LET header == sections[k][1]
                           items == sections[k][2]
                           n == sections[k][3]
                       IN  /\ Places(text, header.s[1]) # {} <=> Len(items) > 0
                           /\ \A i \in DOMAIN items :
                                 Places(text, items[i].s[1]) # {} <=> i <= n
                 /\ \A i \in shown : Cardinality(Places(text, outline[i])) = 1
                 /\ \A i, j \in shown :
                       i < j => \A x \in Places(text, outline[i]),
                                   y \in Places(text, outline[j]) : x < y

\* a report of a valid food image is formatted whose benefits have more
\* than 3 findings, whose concerns are empty and which has 3 alternatives
C36_Witness ==
    /\ message # None
    /\ message.text # None
    /\ message.report.extracted_data.validation_status = VALID_FOOD_IMAGE
    /\ Truthy(message.report.benefits_analysis)
    /\ Len(message.report.benefits_analysis.findings) > 3
    /\ Truthy(message.report.disadvantages_analysis)
    /\ Len(message.report.disadvantages_analysis.findings) = 0
    /\ Truthy(message.report.alternatives_report)
    /\ Len(message.report.alternatives_report.alternatives) = 3
    /\ Places(message.text, BenefitsHeader.s[1]) # {}
====
